---- MODULE Spec2Model ----
(***************************************************************************)
(* The auth package of sdk-go as vendored by go-api: the Granter (token    *)
(* cache + coalesced token fetch) and the Verifier (key cache + coalesced  *)
(* JWKS fetch), run by a fixed pool of goroutines against one Granter and  *)
(* one Verifier, with wall-clock time in whole seconds (time.Now().Unix()).*)
(***************************************************************************)
EXTENDS Integers, Sequences, FiniteSets, TLC

(* ------------------------------ bounds -------------------------------- *)
NumCallers == 2
MaxTime == 2
MaxExpiresIn == 2
MaxListLen == 3
MaxMargin == 1

(* ------------------------- program constants -------------------------- *)
StatusOK == 200
StatusUnauthorized == 401
StatusForbidden == 403
StatusBadRequest == 400
KeyLifetime == 86400

(* ------------------------------ inputs -------------------------------- *)
ResourceA == "https://svc-a"
ResourceB == "https://svc-b"
AccessTokens == {"tok1", "tok2"}
StatusCodes == {199, 200, 399, 400}
ExpiresInValues == 0..MaxExpiresIn
Margins == 0..MaxMargin

NoErr == [msg |-> "", code |-> 0]
Err(m) == [msg |-> m, code |-> 0]
ErrCode(m, n) == [msg |-> m, code |-> n]

(* The configurations a Granter is constructed with: the three mandatory   *)
(* fields are set or left empty.                                           *)
GoodConfig ==
  [ClientID |-> "id", ClientSecret |-> "secret", TenantURL |-> "https://t.auth0.com"]
GranterConfigs ==
  { GoodConfig,
    [GoodConfig EXCEPT !.ClientID = ""],
    [GoodConfig EXCEPT !.ClientSecret = ""],
    [GoodConfig EXCEPT !.TenantURL = ""] }

(* What the token endpoint can answer to one POST: no answer (a transport  *)
(* failure), a status with a body that is not JSON, a status with a token  *)
(* response.                                                               *)
TransportFailure ==
  [transport |-> FALSE, status |-> 0, json |-> FALSE, access_token |-> "", expires_in |-> 0]
TokenResponse(s, t, e) ==
  [transport |-> TRUE, status |-> s, json |-> TRUE, access_token |-> t, expires_in |-> e]
TokenResponses ==
  { TransportFailure }
  \cup { [TransportFailure EXCEPT !.transport = TRUE, !.status = s] : s \in StatusCodes }
  \cup { TokenResponse(s, t, e) : s \in StatusCodes, t \in AccessTokens, e \in ExpiresInValues }

(* A bearer token presented to the Verifier: its name, its aud and iss      *)
(* claims (a URL is a sequence of characters), its kid header if it has    *)
(* one, and the key whose private half signed it.                          *)
Token(raw, aud, iss, hasKid, kid, signer) ==
  [raw |-> raw, aud |-> aud, iss |-> iss, hasKid |-> hasKid, kid |-> kid, signer |-> signer]
NoToken == Token("", <<>>, <<>>, FALSE, "", "")

TenantT == <<"t">>
VerifierConfig == [Resource |-> ResourceB, TenantURL |-> TenantT]

GoodToken == Token("good", <<ResourceB>>, <<"t", "/">>, TRUE, "k1", "pkA")
OtherKidToken == Token("good2", <<ResourceA, ResourceB>>, <<"t", "/">>, TRUE, "k2", "pkB")
ForgedToken == Token("forged", <<ResourceB>>, <<"t", "/">>, TRUE, "k1", "pkX")
WrongAudToken == Token("aud", <<ResourceA>>, <<"t", "/">>, TRUE, "k1", "pkA")
WrongIssToken == Token("iss", <<ResourceB>>, <<"u", "/">>, TRUE, "k1", "pkA")
NoKidToken == Token("nokid", <<ResourceB>>, <<"t", "/">>, FALSE, "", "pkA")
Tokens == {GoodToken, OtherKidToken, ForgedToken, WrongAudToken, WrongIssToken, NoKidToken}

(* What the JWKS endpoint can answer to one GET.                           *)
Jwk(kid, x5c) == [kid |-> kid, x5c |-> x5c]
JwksFailure == [transport |-> FALSE, status |-> 0, json |-> FALSE, keys |-> <<>>]
Jwks(s, keys) == [transport |-> TRUE, status |-> s, json |-> TRUE, keys |-> keys]
KeySets ==
  { <<>>,
    <<Jwk("k1", <<"certA">>)>>,
    <<Jwk("k2", <<"certB">>), Jwk("k1", <<"certA", "certB">>)>>,
    <<Jwk("k1", <<>>), Jwk("k1", <<"certA">>)>>,
    <<Jwk("k1", <<"garbage">>)>> }
JwksResponses ==
  { JwksFailure }
  \cup { [JwksFailure EXCEPT !.transport = TRUE, !.status = s] : s \in StatusCodes }
  \cup { Jwks(s, ks) : s \in StatusCodes, ks \in KeySets }

VARIABLES
  now,        \* time.Now().Unix()
  built,      \* which objects the process has constructed
  gConfig,    \* Granter.ClientID, ClientSecret, TenantURL
  gMargin,    \* Granter.ExpirationMargin
  gCache,     \* Granter.cache: [isNil, m], m a function on the cached resources
  gGroup,     \* Granter.tokenRequestGroup: key -> the goroutine running the producer
  gMutex,     \* Granter.mutex: the goroutine holding it locked for writing, or 0
  vConfig,    \* Verifier.Resource, TenantURL
  vMargin,    \* Verifier.ExpirationMargin
  vCache,     \* Verifier.cache: [isNil, m], m a function on the cached kids
  vGroup,     \* Verifier.requestGroup: key -> the goroutine running the producer
  vMutex,     \* Verifier.mutex: the goroutine holding it locked for writing, or 0
  oCache,     \* the cache of a second Granter of the process
  oGroup,     \* the tokenRequestGroup of the second Granter
  pc,         \* where each goroutine is
  arg,        \* the key of the call it is in: the resource, the kid
  loc,        \* its locals, and the history of its call
  ret,        \* what its call returns
  fresh,      \* no call has returned yet (history)
  reset,      \* "yes": ResetCache has returned and no lookup has started since;
              \* "no": a lookup has; "untracked": not recorded (history)
  al,         \* an AudienceList: [isNil, list]
  data,       \* the JSON text MarshalJSON produced, or UnmarshalJSON is given
  decoded,    \* the AudienceList UnmarshalJSON has filled in
  codec,      \* what has been done with al and data
  adapter,    \* per goroutine: the adapter it is in (NewRequestFunc's closure or
              \* the RoundTripper), the request it was given, and the outcome
  handler,    \* per goroutine: the request WithScope's handler is serving, the
              \* scope it requires, and the response
  answer,     \* a call of sendError: its arguments, where it is, and what the
              \* ResponseWriter has been given and has sent
  wrapped,    \* a request inside WithLog or WithPrometheus: the wrapping
              \* ResponseWriter, the writer it wraps, and what was recorded
  routed      \* a request given to the handler newRouter returned: the handlers
              \* it has entered, in order

gvars == <<gConfig, gMargin, gCache, gGroup, gMutex>>
vvars == <<vConfig, vMargin, vCache, vGroup, vMutex>>
ovars == <<oCache, oGroup>>
jvars == <<al, data, decoded, codec>>
svars == <<wrapped, routed>>
cvars == <<jvars, adapter, handler, answer, svars>>
vars == <<now, built, gvars, vvars, ovars, cvars, pc, arg, loc, ret, fresh, reset>>

Callers == DOMAIN pc

(* ------------------------- per-goroutine records ----------------------- *)
\* val, err: the producer's / Do's result; expiresOn: the local of GetToken;
\* tok: the token VerifyToken was given.
\* History: declared (the provider's expiry of the token in hand: the time the
\* response was processed + its expires_in), issued (the access_token of that
\* response), leader (who ran the producer this call got its outcome from;
\* 0, which numbers no goroutine, before it has one), posted (this call sent
\* a request), late (some call had already finished when this one started),
\* hit (the call was served from the cache), answered and status (the request
\* of this call got an HTTP response, with this status code), afterReset (the
\* call is the first lookup since a ResetCache returned), other (the call is
\* on the second Granter).
NoLoc == [val |-> "", err |-> NoErr, expiresOn |-> 0, declared |-> 0, issued |-> "",
          tok |-> NoToken,
          leader |-> 0, posted |-> FALSE, late |-> FALSE, hit |-> FALSE,
          answered |-> FALSE, status |-> 0, afterReset |-> FALSE,
          other |-> FALSE]
NoRet == [err |-> NoErr, val |-> ""]

NilCache == [isNil |-> TRUE, m |-> <<>>]

\* the history of resets after a ResetCache, and after the start of a lookup
Cleared(r) == IF r = "untracked" THEN r ELSE "yes"
Looked(r) == IF r = "untracked" THEN r ELSE "no"

\* the lock that excludes nobody
UnlockedAlways(mutex) == TRUE

\* granter.go:183, 198, 217 and part_001:123, 244, 263  Lock and RLock go through
\* when no goroutine holds the mutex locked for writing (a read section is one
\* step, so no reader is ever found inside)
Unlocked(mutex) == mutex = 0

\* one field of the entry of a key stored, in a map made if there was none and
\* an entry of zero values if there was none
StoreField(cache, k, zero, field, value) ==
  LET old == IF cache.isNil THEN <<>> ELSE cache.m
      was == IF k \in DOMAIN old THEN old[k] ELSE zero
  IN [isNil |-> FALSE,
      m |-> [j \in DOMAIN old \cup {k} |->
               IF j = k THEN [was EXCEPT ![field] = value] ELSE old[j]]]

(* ------------------------------ Granter -------------------------------- *)
\* Every access to g.cache is made under g.mutex (granter.go:183, 198, 217). A
\* critical section is one step, or, where the steps inside a write are
\* followed one by one, the steps from Lock to Unlock.

\* the check of the resource left out
ResourceNeverEmpty(resource) == FALSE

\* granter.go:60  if resource == ""
ResourceIsEmpty(resource) == resource = ""

\* the comparison the wrong way round
TokenExpired(expiration, t) == expiration <= t

\* granter.go:207  tc.expiration >= time.Now().Unix()
TokenNotExpired(expiration, t) == expiration >= t

\* expires_in taken for an absolute time
ExpiresOnRelative(t, expiresIn) == expiresIn

\* granter.go:129  expiresOn := time.Now().Unix() + accessTokenResponse.ExpiresIn
ExpiresOn(t, expiresIn) == t + expiresIn

\* the margin added
AdjustedExpirationAdded(expiration, margin) == expiration + margin

\* granter.go:228  expiration: expiration - g.ExpirationMargin
AdjustedExpiration(expiration, margin) == expiration - margin

\* one call in flight per tenant
DoKeyTenant(c, resource) == gConfig.TenantURL

\* one key for every resource
DoKeyShared(c, resource) == "token"

\* a key that differs from goroutine to goroutine
DoKeyPerCaller(c, resource) == <<c, resource>>

\* granter.go:71  tokenRequestGroup.Do(resource, ...): the key is the resource
\* alone, whichever goroutine calls.
DoKey(c, resource) == resource

\* the configuration checks left out
ConfigErrorNone(cfg) == NoErr

\* granter.go:76-82  the producer's configuration checks
ConfigError(cfg) ==
  IF cfg.ClientID = "" \/ cfg.ClientSecret = ""
    THEN Err("ClientID and ClientSecret cannot be empty")
    ELSE IF cfg.TenantURL = "" THEN Err("TenantURL cannot be empty") ELSE NoErr

\* granter.go:112  resp.StatusCode < http.StatusOK || resp.StatusCode >= http.StatusBadRequest
BadStatus(code) == code < StatusOK \/ code >= StatusBadRequest

\* every answer taken for a token response
ResponseErrorNone(resp) == NoErr

\* granter.go:105-126  what the producer makes of the answer to its POST
ResponseError(resp) ==
  IF ~resp.transport THEN Err("unable to fetch token")
  ELSE IF BadStatus(resp.status)
    THEN ErrCode("unable to fetch token: received status code", resp.status)
  ELSE IF ~resp.json THEN Err("bad Access Token Response")
  ELSE NoErr

\* the error dropped
GetTokenResultSwallowed(err, val) == [err |-> NoErr, val |-> val]

\* the test of err inverted
GetTokenResultInverted(err, val) ==
  IF err = NoErr THEN [err |-> err, val |-> ""] ELSE [err |-> NoErr, val |-> val]

\* granter.go:137-142  GetToken returns what Do returned
GetTokenResult(err, val) ==
  IF err # NoErr THEN [err |-> err, val |-> ""] ELSE [err |-> NoErr, val |-> val]

\* granter.go:197-212  readToken: whether the cache holds a usable entry
readTokenOk(cache, resource, t) ==
  /\ ~cache.isNil
  /\ resource \in DOMAIN cache.m
  /\ TokenNotExpired(cache.m[resource].expiration, t)

\* granter.go:216-230  writeToken: the cache after the write (declared and issued
\* are history)
\* a write that starts a new map
writeTokenToNewMap(cache, resource, jwt, expiration, margin, declared, issued) ==
  [isNil |-> FALSE,
   m |-> [k \in {resource} |->
            [jwt |-> jwt, expiration |-> AdjustedExpiration(expiration, margin),
             declared |-> declared, issued |-> issued]]]

writeTokenTo(cache, resource, jwt, expiration, margin, declared, issued) ==
  LET old == IF cache.isNil THEN <<>> ELSE cache.m
      entry == [jwt |-> jwt, expiration |-> AdjustedExpiration(expiration, margin),
                declared |-> declared, issued |-> issued]
  IN [isNil |-> FALSE,
      m |-> [k \in DOMAIN old \cup {resource} |-> IF k = resource THEN entry ELSE old[k]]]

\* some other call has finished before any call returned
Late(c) == fresh /\ \E d \in Callers \ {c} : pc[d] = "done"

\* granter.go:64-67, 197-212  readToken under the read lock: a usable entry is
\* returned, anything else goes on to Do
readTokenFrom(c, resource, late) ==
  /\ Unlocked(gMutex)
  /\ IF readTokenOk(gCache, resource, now)
       THEN /\ pc' = [pc EXCEPT ![c] = "done"]
            /\ ret' = [ret EXCEPT ![c] =
                         [err |-> NoErr, val |-> gCache.m[resource].jwt]]
            /\ loc' = [loc EXCEPT ![c] =
                         [NoLoc EXCEPT !.late = late, !.hit = TRUE,
                                       !.afterReset = (reset = "yes"),
                                       !.declared = gCache.m[resource].declared,
                                       !.issued = gCache.m[resource].issued]]
       ELSE /\ pc' = [pc EXCEPT ![c] = "gDo"]
            /\ ret' = ret
            /\ loc' = [loc EXCEPT ![c] = [NoLoc EXCEPT !.late = late,
                                                       !.afterReset = (reset = "yes")]]
  /\ reset' = Looked(reset)

\* granter.go:60-62  an empty resource is refused at once
refuseEmpty(c) ==
  /\ pc' = [pc EXCEPT ![c] = "done"]
  /\ ret' = [ret EXCEPT ![c] = [err |-> Err("resource cannot be empty"), val |-> ""]]
  /\ loc' = [loc EXCEPT ![c] = [NoLoc EXCEPT !.late = Late(c)]]
  /\ reset' = reset

\* granter.go:58-67  GetToken is entered: an empty resource is refused at once,
\* a usable cache entry is returned, anything else goes on to Do
GetTokenCall(c, resource) ==
  /\ pc[c] = "idle"
  /\ "granter" \in built
  /\ arg' = [arg EXCEPT ![c] = resource]
  /\ IF ResourceIsEmpty(resource)
       THEN refuseEmpty(c)
       ELSE readTokenFrom(c, resource, Late(c))
  /\ UNCHANGED <<now, built, cvars, ovars, gvars, vvars, fresh>>

\* granter.go:71-105  Do is entered: a caller that finds the key pending waits for
\* that producer's outcome; the first caller for a key runs the producer, which
\* checks the configuration and sends the POST
DoEnter(c) ==
  /\ pc[c] = "gDo"
  /\ LET key == DoKey(c, arg[c])
     IN IF key \in DOMAIN gGroup
          THEN /\ pc' = [pc EXCEPT ![c] = "gWait"]
               /\ loc' = [loc EXCEPT ![c].leader = gGroup[key]]
               /\ gGroup' = gGroup
          ELSE /\ gGroup' = [k \in DOMAIN gGroup \cup {key} |->
                               IF k = key THEN c ELSE gGroup[k]]
               /\ IF ConfigError(gConfig) # NoErr
                    THEN /\ pc' = [pc EXCEPT ![c] = "gFnRet"]
                         /\ loc' = [loc EXCEPT ![c].leader = c,
                                                ![c].err = ConfigError(gConfig)]
                    ELSE /\ pc' = [pc EXCEPT ![c] = "gPost"]
                         /\ loc' = [loc EXCEPT ![c].leader = c, ![c].posted = TRUE]
  /\ UNCHANGED <<now, built, cvars, ovars, reset, gConfig, gMargin, gMutex, gCache, vvars, arg, ret, fresh>>

\* granter.go:105-129  the answer arrives: errors end the producer, a decoded
\* answer gives the token and its absolute expiry
PostResponse(c, resp) ==
  /\ pc[c] = "gPost"
  /\ IF ResponseError(resp) # NoErr
       THEN /\ pc' = [pc EXCEPT ![c] = "gFnRet"]
            /\ loc' = [loc EXCEPT ![c].err = ResponseError(resp),
                                   ![c].answered = resp.transport,
                                   ![c].status = resp.status]
       ELSE /\ pc' = [pc EXCEPT ![c] = "gWrite"]
            /\ loc' = [loc EXCEPT ![c].val = resp.access_token,
                                   ![c].answered = resp.transport,
                                   ![c].status = resp.status,
                                   ![c].issued = resp.access_token,
                                   ![c].declared = now + resp.expires_in,
                                   ![c].expiresOn = ExpiresOn(now, resp.expires_in)]
  /\ UNCHANGED <<now, built, cvars, ovars, reset, gvars, vvars, arg, ret, fresh>>

\* granter.go:132-134  writeToken, and the producer returns the token
writeToken(c) ==
  /\ pc[c] = "gWrite"
  /\ Unlocked(gMutex)
  /\ gCache' = writeTokenTo(gCache, arg[c], loc[c].val, loc[c].expiresOn, gMargin,
                            loc[c].declared, loc[c].issued)
  /\ pc' = [pc EXCEPT ![c] = "gFnRet"]
  /\ UNCHANGED <<now, built, cvars, ovars, reset, gConfig, gMargin, gMutex, gGroup, vvars, arg, loc, ret, fresh>>

\* the coalescer: the producer of goroutine c has returned; the pending entry of
\* its key is cleared and its outcome is handed to c, which returns result from
\* its call, and to every waiter
Deliver(group, c, key, waitpc, retpc, result) ==
  LET waiters == {w \in Callers : pc[w] = waitpc /\ loc[w].leader = c}
  IN /\ group' = [k \in DOMAIN group \ {key} |-> group[k]]
     /\ pc' = [d \in Callers |->
                 IF d = c THEN "done" ELSE IF d \in waiters THEN retpc ELSE pc[d]]
     /\ loc' = [d \in Callers |->
                  IF d \in waiters
                    THEN [loc[d] EXCEPT !.err = loc[c].err, !.val = loc[c].val,
                                        !.declared = loc[c].declared,
                                        !.issued = loc[c].issued]
                    ELSE loc[d]]
     /\ ret' = [ret EXCEPT ![c] = result]

\* granter.go:71,135-142  the producer of GetToken has returned, and GetToken
\* returns Do's outcome to the caller that ran it
DoReturn(c) ==
  /\ pc[c] = "gFnRet"
  /\ Deliver(gGroup, c, DoKey(c, arg[c]), "gWait", "gDoRet",
             GetTokenResult(loc[c].err, loc[c].val))
  /\ UNCHANGED <<now, built, cvars, ovars, reset, gConfig, gMargin, gMutex, gCache, vvars, arg, fresh>>

\* granter.go:137-142  GetToken returns Do's outcome to a caller that waited
GetTokenReturn(c) ==
  /\ pc[c] = "gDoRet"
  /\ ret' = [ret EXCEPT ![c] = GetTokenResult(loc[c].err, loc[c].val)]
  /\ pc' = [pc EXCEPT ![c] = "done"]
  /\ UNCHANGED <<now, built, cvars, ovars, reset, gvars, vvars, arg, loc, fresh>>

\* granter.go:182-187  ResetCache: g.cache = nil under the lock
ResetCache(c) ==
  /\ pc[c] = "idle"
  /\ "granter" \in built
  /\ Unlocked(gMutex)
  /\ gCache' = NilCache
  /\ reset' = Cleared(reset)
  /\ UNCHANGED <<now, built, cvars, ovars, gConfig, gMargin, gMutex, gGroup, vvars, pc, arg, loc, ret, fresh>>

\* The same calls with the waits for the mutex and the steps inside writeToken
\* followed one by one.

\* granter.go:58-65  GetToken is entered: an empty resource is refused, any other
\* brings the caller to the RLock of readToken
GetTokenEnter(c, resource) ==
  /\ pc[c] = "idle"
  /\ "granter" \in built
  /\ arg' = [arg EXCEPT ![c] = resource]
  /\ IF ResourceIsEmpty(resource)
       THEN refuseEmpty(c)
       ELSE /\ pc' = [pc EXCEPT ![c] = "gRead"]
            /\ loc' = [loc EXCEPT ![c] = [NoLoc EXCEPT !.late = Late(c)]]
            /\ UNCHANGED <<ret, reset>>
  /\ UNCHANGED <<now, built, cvars, ovars, gvars, vvars, fresh>>

\* granter.go:197-212  readToken, once RLock goes through
readToken(c) ==
  /\ pc[c] = "gRead"
  /\ readTokenFrom(c, arg[c], loc[c].late)
  /\ UNCHANGED <<now, built, cvars, ovars, gvars, vvars, arg, fresh>>

\* granter.go:217  g.mutex.Lock() in writeToken
writeTokenLock(c) ==
  /\ pc[c] = "gWrite"
  /\ Unlocked(gMutex)
  /\ gMutex' = c
  /\ pc' = [pc EXCEPT ![c] = "gLocked"]
  /\ UNCHANGED <<now, built, cvars, ovars, reset, gConfig, gMargin, gCache, gGroup, vvars, arg, loc, ret,
                 fresh>>

\* granter.go:221-229  the entry is stored, its two fields one after the other,
\* in either order
ZeroToken == [jwt |-> "", expiration |-> 0, declared |-> 0, issued |-> ""]

storeJwt(c) ==
  /\ pc[c] \in {"gLocked", "gExpStored"}
  /\ gCache' = StoreField(gCache, arg[c], ZeroToken, "jwt", loc[c].val)
  /\ pc' = [pc EXCEPT ![c] = IF pc[c] = "gLocked" THEN "gJwtStored" ELSE "gStored"]
  /\ UNCHANGED <<now, built, cvars, ovars, reset, gConfig, gMargin, gMutex, gGroup, vvars, arg, loc, ret,
                 fresh>>

storeExpiration(c) ==
  /\ pc[c] \in {"gLocked", "gJwtStored"}
  /\ gCache' = StoreField(gCache, arg[c], ZeroToken, "expiration",
                          AdjustedExpiration(loc[c].expiresOn, gMargin))
  /\ pc' = [pc EXCEPT ![c] = IF pc[c] = "gLocked" THEN "gExpStored" ELSE "gStored"]
  /\ UNCHANGED <<now, built, cvars, ovars, reset, gConfig, gMargin, gMutex, gGroup, vvars, arg, loc, ret,
                 fresh>>

\* the write completed, the mutex left locked
writeTokenStaysLocked(c) ==
  /\ pc[c] = "gStored"
  /\ gCache' = [gCache EXCEPT !.m[arg[c]].declared = loc[c].declared,
                              !.m[arg[c]].issued = loc[c].issued]
  /\ pc' = [pc EXCEPT ![c] = "gFnRet"]
  /\ UNCHANGED <<now, built, cvars, ovars, reset, gConfig, gMargin, gMutex, gGroup, vvars, arg, loc, ret,
                 fresh>>

\* granter.go:218, 230  the deferred g.mutex.Unlock(): the write is complete (its
\* response becomes the history of the entry) and the producer returns
writeTokenUnlock(c) ==
  /\ pc[c] = "gStored"
  /\ gCache' = [gCache EXCEPT !.m[arg[c]].declared = loc[c].declared,
                              !.m[arg[c]].issued = loc[c].issued]
  /\ gMutex' = 0
  /\ pc' = [pc EXCEPT ![c] = "gFnRet"]
  /\ UNCHANGED <<now, built, cvars, ovars, reset, gConfig, gMargin, gGroup, vvars, arg, loc, ret, fresh>>

\* granter.go:182-183  ResetCache is called and comes to its Lock
ResetCacheEnter(c) ==
  /\ pc[c] = "idle"
  /\ "granter" \in built
  /\ pc' = [pc EXCEPT ![c] = "gReset"]
  /\ UNCHANGED <<now, built, cvars, ovars, reset, gvars, vvars, arg, loc, ret, fresh>>

\* granter.go:183-187  Lock goes through, g.cache = nil, Unlock, return
ResetCacheLocked(c) ==
  /\ pc[c] = "gReset"
  /\ Unlocked(gMutex)
  /\ gCache' = NilCache
  /\ reset' = Cleared(reset)
  /\ pc' = [pc EXCEPT ![c] = "done"]
  /\ UNCHANGED <<now, built, cvars, ovars, gConfig, gMargin, gMutex, gGroup, vvars, arg, loc, ret, fresh>>

GranterLockStep(c, resources, responses) ==
  \/ \E r \in resources : GetTokenEnter(c, r)
  \/ readToken(c)
  \/ DoEnter(c)
  \/ \E resp \in responses : PostResponse(c, resp)
  \/ writeTokenLock(c)
  \/ storeJwt(c)
  \/ storeExpiration(c)
  \/ writeTokenUnlock(c)
  \/ DoReturn(c)
  \/ GetTokenReturn(c)
  \/ ResetCacheEnter(c)
  \/ ResetCacheLocked(c)

GranterStep(c, resources, responses) ==
  \/ \E r \in resources : GetTokenCall(c, r)
  \/ DoEnter(c)
  \/ \E resp \in responses : PostResponse(c, resp)
  \/ writeToken(c)
  \/ DoReturn(c)
  \/ GetTokenReturn(c)
  \/ ResetCache(c)

(* ---------------------------- AudienceList ----------------------------- *)
\* A Go string is a sequence of bytes; one of them here is a byte that is not
\* valid UTF-8, and one character is U+FFFD, which is.
InvalidByte == "\\xff"
Replacement == "\\ufffd"
GoStrings == { <<>>, <<"a">>, <<InvalidByte>>, <<"b", Replacement>> }

\* part_001:70  type AudienceList []string: nil, or a slice of strings
NilList == [isNil |-> TRUE, list |-> <<>>]
List(l) == [isNil |-> FALSE, list |-> l]
RECURSIVE SeqsUpTo(_, _)
SeqsUpTo(S, n) ==
  IF n = 0 THEN { <<>> }
  ELSE SeqsUpTo(S, n - 1)
       \cup { Append(l, x) : l \in { m \in SeqsUpTo(S, n - 1) : Len(m) = n - 1 }, x \in S }
AudienceLists == { NilList } \cup { List(l) : l \in SeqsUpTo(GoStrings, MaxListLen) }

\* JSON texts: null, a number, a string, an array of strings
JsonNull == [kind |-> "null", s |-> <<>>, elems |-> <<>>]
JsonNumber == [kind |-> "number", s |-> <<>>, elems |-> <<>>]
JsonString(s) == [kind |-> "string", s |-> s, elems |-> <<>>]
JsonArray(elems) == [kind |-> "array", s |-> <<>>, elems |-> elems]

\* json.Marshal of a string: coerced to valid UTF-8, every invalid byte replaced
\* by U+FFFD
Coerce(s) == [i \in 1..Len(s) |-> IF s[i] = InvalidByte THEN Replacement ELSE s[i]]
MarshalString(s) == JsonString(Coerce(s))
\* json.Marshal of a []string: null for a nil slice, else an array
MarshalStrings(l) ==
  IF l.isNil THEN JsonNull
  ELSE JsonArray([i \in 1..Len(l.list) |-> Coerce(l.list[i])])

\* an encoding that is an array whatever the length
MarshalJSONArray(l) == MarshalStrings(l)

\* part_001:288-293  MarshalJSON
MarshalJSON(l) ==
  IF Len(l.list) = 1 THEN MarshalString(l.list[1])
  ELSE MarshalStrings(l)

\* part_001:295-307  UnmarshalJSON into the list old: the text is tried as a
\* string (which null satisfies, leaving the string empty), then as an array
UnmarshalJSON(old, text) ==
  CASE text.kind = "string" -> [err |-> NoErr, al |-> List(<<text.s>>)]
    [] text.kind = "null" -> [err |-> NoErr, al |-> List(<< <<>> >>)]
    [] text.kind = "array" -> [err |-> NoErr, al |-> List(text.elems)]
    [] OTHER -> [err |-> Err("json: cannot unmarshal"), al |-> old]

\* part_001:288-293  a list is encoded
Encode ==
  /\ codec = "list"
  /\ data' = MarshalJSON(al)
  /\ codec' = "encoded"
  /\ UNCHANGED <<now, built, gvars, vvars, ovars, svars, al, decoded, adapter, handler, answer, pc, arg, loc,
                 ret, fresh, reset>>

\* part_001:295-307  the text, produced by Encode or received, is decoded
Decode ==
  /\ codec \in {"encoded", "text"}
  /\ decoded' = UnmarshalJSON(decoded, data).al
  /\ codec' = IF UnmarshalJSON(decoded, data).err # NoErr THEN "failed"
              ELSE IF codec = "encoded" THEN "roundtrip" ELSE "decoded"
  /\ UNCHANGED <<now, built, gvars, vvars, ovars, svars, al, data, adapter, handler, answer, pc, arg, loc,
                 ret, fresh, reset>>

(* ------------------------------ sendError ------------------------------ *)
\* sendError (part_004:13-20) writes to an http.ResponseWriter: the server's,
\* which sends no body with a status that forbids one and answers such a Write
\* with an error, or the recorder of a test, which keeps every body.
JsonObject(m) == [kind |-> "object", s |-> m, elems |-> <<>>]
NoBody == [kind |-> "none", s |-> <<>>, elems |-> <<>>]

NotCalled ==
  [writer |-> "none", status |-> 0, msg |-> <<>>, stage |-> "none",
   header |-> <<>>, code |-> 0, sentHeader |-> <<>>, body |-> NoBody]

\* net/http: a body is allowed with every status but 1xx, 204 and 304
BodyAllowed(status) == status >= 200 /\ status # 204 /\ status # 304

\* whether the writer keeps what is written to it after the status
BodyWritten(writer, status) == writer = "recorder" \/ BodyAllowed(status)

\* part_004:9-11, 19  the encoding of apiError{Message: msg}: the message
\* coerced to valid UTF-8, the field left out when the message is empty
EncodeApiError(msg) == JsonObject(Coerce(msg))

\* the decoding of a body into an apiError: its Message, or no apiError
DecodeApiError(body) ==
  IF body.kind = "object" THEN [ok |-> TRUE, Message |-> body.s]
  ELSE [ok |-> FALSE, Message |-> <<>>]

\* part_004:13-16  sendError is called
sendErrorCall(writer, status, msg) ==
  /\ answer.stage = "none"
  /\ answer' = [NotCalled EXCEPT !.writer = writer, !.status = status, !.msg = msg,
                                 !.stage = "called"]
  /\ UNCHANGED <<now, built, gvars, vvars, ovars, svars, jvars, adapter, handler, pc, arg, loc, ret,
                 fresh, reset>>

\* part_004:17  w.Header().Add("Content-Type", "application/json")
addContentType ==
  /\ answer.stage = "called"
  /\ answer' = [answer EXCEPT !.header = Append(@, "application/json"),
                              !.stage = "headed"]
  /\ UNCHANGED <<now, built, gvars, vvars, ovars, svars, jvars, adapter, handler, pc, arg, loc, ret,
                 fresh, reset>>

\* part_004:18  w.WriteHeader(status): the header as it is now goes out with
\* the status
WriteHeader ==
  /\ answer.stage = "headed"
  /\ answer' = [answer EXCEPT !.code = answer.status, !.sentHeader = answer.header,
                              !.stage = "status"]
  /\ UNCHANGED <<now, built, gvars, vvars, ovars, svars, jvars, adapter, handler, pc, arg, loc, ret,
                 fresh, reset>>

\* part_004:19  json.NewEncoder(w).Encode(err), its error dropped
encodeBody ==
  /\ answer.stage = "status"
  /\ answer' = [answer EXCEPT
                  !.body = IF BodyWritten(answer.writer, answer.code)
                             THEN EncodeApiError(answer.msg) ELSE NoBody,
                  !.stage = "returned"]
  /\ UNCHANGED <<now, built, gvars, vvars, ovars, svars, jvars, adapter, handler, pc, arg, loc, ret,
                 fresh, reset>>

(* --------------------------- a second Granter -------------------------- *)
\* Another Granter of the same process, built from the same configuration: the
\* same methods on its own cache and tokenRequestGroup (granter.go:49-51), each
\* call followed from Do to the producer's answer to its return.

\* granter.go:58-105  GetToken on the second Granter up to its request
OtherGetTokenCall(c, resource) ==
  /\ pc[c] = "idle"
  /\ "other" \in built
  /\ ~ResourceIsEmpty(resource)
  /\ arg' = [arg EXCEPT ![c] = resource]
  /\ IF readTokenOk(oCache, resource, now)
       THEN /\ pc' = [pc EXCEPT ![c] = "done"]
            /\ ret' = [ret EXCEPT ![c] = [err |-> NoErr, val |-> oCache.m[resource].jwt]]
            /\ loc' = [loc EXCEPT ![c] = [NoLoc EXCEPT !.other = TRUE, !.hit = TRUE]]
            /\ oGroup' = oGroup
       ELSE IF DoKey(c, resource) \in DOMAIN oGroup
         THEN /\ pc' = [pc EXCEPT ![c] = "oWait"]
              /\ loc' = [loc EXCEPT ![c] =
                           [NoLoc EXCEPT !.other = TRUE,
                                         !.leader = oGroup[DoKey(c, resource)]]]
              /\ UNCHANGED <<ret, oGroup>>
         ELSE /\ oGroup' = [k \in DOMAIN oGroup \cup {DoKey(c, resource)} |->
                              IF k = DoKey(c, resource) THEN c ELSE oGroup[k]]
              /\ ret' = ret
              /\ IF ConfigError(gConfig) # NoErr
                   THEN /\ pc' = [pc EXCEPT ![c] = "oFnRet"]
                        /\ loc' = [loc EXCEPT ![c] =
                                     [NoLoc EXCEPT !.other = TRUE, !.leader = c,
                                                   !.err = ConfigError(gConfig)]]
                   ELSE /\ pc' = [pc EXCEPT ![c] = "oPost"]
                        /\ loc' = [loc EXCEPT ![c] =
                                     [NoLoc EXCEPT !.other = TRUE, !.leader = c,
                                                   !.posted = TRUE]]
  /\ UNCHANGED <<now, built, cvars, reset, gvars, vvars, oCache, fresh>>

\* granter.go:105-134  the answer arrives: an error ends the producer, a token
\* is written to the cache of the second Granter
OtherPostResponse(c, resp) ==
  /\ pc[c] = "oPost"
  /\ pc' = [pc EXCEPT ![c] = "oFnRet"]
  /\ IF ResponseError(resp) # NoErr
       THEN /\ loc' = [loc EXCEPT ![c].err = ResponseError(resp),
                                   ![c].answered = resp.transport,
                                   ![c].status = resp.status]
            /\ oCache' = oCache
       ELSE /\ loc' = [loc EXCEPT ![c].val = resp.access_token,
                                   ![c].answered = resp.transport,
                                   ![c].status = resp.status,
                                   ![c].issued = resp.access_token,
                                   ![c].declared = now + resp.expires_in,
                                   ![c].expiresOn = ExpiresOn(now, resp.expires_in)]
            /\ oCache' = writeTokenTo(oCache, arg[c], resp.access_token,
                                      ExpiresOn(now, resp.expires_in), gMargin,
                                      now + resp.expires_in, resp.access_token)
  /\ UNCHANGED <<now, built, cvars, reset, gvars, vvars, oGroup, arg, ret, fresh>>

\* granter.go:71, 135-142  the producer has returned, and GetToken returns
OtherDoReturn(c) ==
  /\ pc[c] = "oFnRet"
  /\ Deliver(oGroup, c, DoKey(c, arg[c]), "oWait", "oDoRet",
             GetTokenResult(loc[c].err, loc[c].val))
  /\ UNCHANGED <<now, built, cvars, reset, gvars, vvars, oCache, arg, fresh>>

\* granter.go:137-142  GetToken returns Do's outcome to a caller that waited
OtherGetTokenReturn(c) ==
  /\ pc[c] = "oDoRet"
  /\ ret' = [ret EXCEPT ![c] = GetTokenResult(loc[c].err, loc[c].val)]
  /\ pc' = [pc EXCEPT ![c] = "done"]
  /\ UNCHANGED <<now, built, cvars, reset, gvars, vvars, ovars, arg, loc, fresh>>

\* a cache that is one for all Granters
OtherResetCacheShared(c) ==
  /\ pc[c] = "idle"
  /\ "other" \in built
  /\ gCache' = NilCache
  /\ UNCHANGED <<now, built, cvars, reset, gConfig, gMargin, gMutex, gGroup, vvars, ovars, pc, arg,
                 loc, ret, fresh>>

\* granter.go:182-187  ResetCache on the second Granter
OtherResetCache(c) ==
  /\ pc[c] = "idle"
  /\ "other" \in built
  /\ oCache' = NilCache
  /\ UNCHANGED <<now, built, cvars, reset, gvars, vvars, oGroup, pc, arg, loc, ret, fresh>>

OtherStep(c, resources, responses) ==
  \/ \E r \in resources : OtherGetTokenCall(c, r)
  \/ \E resp \in responses : OtherPostResponse(c, resp)
  \/ OtherDoReturn(c)
  \/ OtherGetTokenReturn(c)
  \/ OtherResetCache(c)

(* ------------------------------ Verifier ------------------------------- *)
\* Every access to v.cache is made under v.mutex (part_001:123, 244, 263), so
\* each critical section is one step.

RECURSIVE TrimRight(_, _)
\* strings.TrimRight(s, cutset) for a one-character cutset
TrimRight(s, ch) ==
  IF Len(s) > 0 /\ s[Len(s)] = ch THEN TrimRight(SubSeq(s, 1, Len(s) - 1), ch) ELSE s

\* the slash appended to the tenant URL as it is
IssuerUntrimmed(tenantURL) == tenantURL \o <<"/">>

\* part_001:144  issuer := strings.TrimRight(v.TenantURL, "/") + "/"
Issuer(tenantURL) == TrimRight(tenantURL, "/") \o <<"/">>

\* part_001:278-286  verifyAudience: nil (TRUE) when some audience is the Resource
\* an audience check that lets every token through
verifyAudienceAny(audiences, resource) == TRUE

\* part_001:278-286  verifyAudience: some audience of the token is v.Resource
verifyAudience(audiences, resource) ==
  \E i \in 1..Len(audiences) : audiences[i] = resource

\* keyFunc without its issuer check
keyFuncErrorNoIssuer(tok, cfg) ==
  IF ~verifyAudience(tok.aud, cfg.Resource) THEN Err("bad token: missing audience")
  ELSE IF ~tok.hasKid THEN Err("unable to get kid header from token")
  ELSE NoErr

\* keyFunc with the issuer checked ahead of the audience
keyFuncErrorIssuerFirst(tok, cfg) ==
  IF tok.iss = <<>> \/ tok.iss # Issuer(cfg.TenantURL) THEN Err("bad token: issuer")
  ELSE IF ~verifyAudience(tok.aud, cfg.Resource) THEN Err("bad token: missing audience")
  ELSE IF ~tok.hasKid THEN Err("unable to get kid header from token")
  ELSE NoErr

\* part_001:129-153  keyFunc's checks ahead of the key lookup, in their order
keyFuncError(tok, cfg) ==
  IF ~verifyAudience(tok.aud, cfg.Resource) THEN Err("bad token: missing audience")
  ELSE IF tok.iss = <<>> \/ tok.iss # Issuer(cfg.TenantURL) THEN Err("bad token: issuer")
  ELSE IF ~tok.hasKid THEN Err("unable to get kid header from token")
  ELSE NoErr

\* the Granter's comparison used for keys
KeyNotExpiredOrNow(expiration, t) == expiration >= t

\* part_001:253  cache.expiration > time.Now().Unix()
KeyNotExpired(expiration, t) == expiration > t

\* the margin left out
KeyExpirationNoMargin(t, margin) == t + KeyLifetime

\* part_001:274  expiration: time.Now().Unix() + 86400 - v.ExpirationMargin
KeyExpiration(t, margin) == t + KeyLifetime - margin

\* part_001:172  requestGroup.Do(kid, ...): the key is the kid alone
vDoKey(c, kid) == kid

\* part_001:243-258  readPublicKey: whether the cache holds a usable entry
readPublicKeyOk(cache, kid, t) ==
  /\ ~cache.isNil
  /\ kid \in DOMAIN cache.m
  /\ KeyNotExpired(cache.m[kid].expiration, t)

\* part_001:261-276  writePublicKey: the cache after the write (written and
\* parsed are history: the time of the write and the key it was given)
writePublicKeyTo(cache, kid, pk, t, margin) ==
  LET old == IF cache.isNil THEN <<>> ELSE cache.m
      entry == [key |-> pk, expiration |-> KeyExpiration(t, margin), written |-> t,
                parsed |-> pk]
  IN [isNil |-> FALSE,
      m |-> [k \in DOMAIN old \cup {kid} |-> IF k = kid THEN entry ELSE old[k]]]

\* jwt.ParseRSAPublicKeyFromPEM on the PEM-wrapped certificate (part_001:217-221)
ParsePublicKey(cert) ==
  CASE cert = "certA" -> "pkA"
    [] cert = "certB" -> "pkB"
    [] OTHER -> ""

RECURSIVE ScanKeysSkipEmpty(_, _, _)
\* a scan that passes over an entry without certificates
ScanKeysSkipEmpty(keys, i, kid) ==
  IF i > Len(keys) THEN [err |-> Err("no key for kid: " \o kid), val |-> ""]
  ELSE IF keys[i].kid = kid /\ Len(keys[i].x5c) > 0
    THEN IF ParsePublicKey(keys[i].x5c[1]) = ""
           THEN [err |-> Err("unable to parse public key"), val |-> ""]
         ELSE [err |-> NoErr, val |-> ParsePublicKey(keys[i].x5c[1])]
  ELSE ScanKeysSkipEmpty(keys, i + 1, kid)

RECURSIVE ScanKeys(_, _, _)
\* part_001:209-229  the scan of body.Keys from entry i on: the first entry with
\* the kid decides
ScanKeys(keys, i, kid) ==
  IF i > Len(keys) THEN [err |-> Err("no key for kid: " \o kid), val |-> ""]
  ELSE IF keys[i].kid = kid
    THEN IF Len(keys[i].x5c) = 0
           THEN [err |-> Err("missing certificate chain"), val |-> ""]
         ELSE IF ParsePublicKey(keys[i].x5c[1]) = ""
           THEN [err |-> Err("unable to parse public key"), val |-> ""]
         ELSE [err |-> NoErr, val |-> ParsePublicKey(keys[i].x5c[1])]
  ELSE ScanKeys(keys, i + 1, kid)

\* part_001:185-206  what the producer makes of the answer to its GET
JwksError(resp) ==
  IF ~resp.transport THEN Err("error fetching keys from Auth0")
  ELSE IF BadStatus(resp.status)
    THEN ErrCode("error fetching keys from Auth0: received status code", resp.status)
  ELSE IF ~resp.json THEN Err("invalid JSON")
  ELSE NoErr

\* part_001:232-237 and 155-158  getKey returns what Do returned; keyFunc wraps
\* its error
getKeyResult(err, val) ==
  IF err # NoErr THEN [err |-> [err EXCEPT !.msg = "unable to get public key: " \o @],
                       val |-> ""]
  ELSE [err |-> NoErr, val |-> val]

\* part_001:103-118  ParseWithClaims checks the signature with the key keyFunc
\* gave it; VerifyToken returns the token or the error
VerifyResult(tok, keyResult) ==
  IF keyResult.err # NoErr THEN keyResult
  ELSE IF tok.signer # keyResult.val
    THEN [err |-> Err("crypto/rsa: verification error"), val |-> ""]
  ELSE [err |-> NoErr, val |-> tok.raw]

\* part_001:164-168, 243-258  readPublicKey under the read lock: a usable key is
\* returned to keyFunc and the signature is checked, anything else goes on to Do
readPublicKeyFrom(c, tok) ==
  /\ Unlocked(vMutex)
  /\ IF readPublicKeyOk(vCache, tok.kid, now)
       THEN /\ pc' = [pc EXCEPT ![c] = "done"]
            /\ ret' = [ret EXCEPT ![c] =
                         VerifyResult(tok, getKeyResult(NoErr, vCache.m[tok.kid].key))]
            /\ loc' = [loc EXCEPT ![c] =
                         [NoLoc EXCEPT !.tok = tok, !.hit = TRUE,
                                       !.afterReset = (reset = "yes"),
                                       !.val = vCache.m[tok.kid].key]]
       ELSE /\ pc' = [pc EXCEPT ![c] = "vDo"]
            /\ ret' = ret
            /\ loc' = [loc EXCEPT ![c] = [NoLoc EXCEPT !.tok = tok,
                                                       !.afterReset = (reset = "yes")]]
  /\ reset' = Looked(reset)

\* part_001:129-153  keyFunc refuses the token ahead of the key lookup
refuseToken(c, tok) ==
  /\ pc' = [pc EXCEPT ![c] = "done"]
  /\ ret' = [ret EXCEPT ![c] = [err |-> keyFuncError(tok, vConfig), val |-> ""]]
  /\ loc' = [loc EXCEPT ![c] = [NoLoc EXCEPT !.tok = tok]]
  /\ UNCHANGED <<arg, reset>>

\* part_001:102-103, 129-168  VerifyToken is entered: keyFunc refuses a token
\* with the wrong audience or issuer or without kid; otherwise getKey takes the
\* key from the cache, or goes on to Do
VerifyTokenCall(c, tok) ==
  /\ pc[c] = "idle"
  /\ "verifier" \in built
  /\ IF keyFuncError(tok, vConfig) # NoErr
       THEN refuseToken(c, tok)
       ELSE /\ arg' = [arg EXCEPT ![c] = tok.kid]
            /\ readPublicKeyFrom(c, tok)
  /\ UNCHANGED <<now, built, cvars, ovars, gvars, vvars, fresh>>

\* part_001:172-185  Do is entered: a caller that finds the kid pending waits for
\* that producer's outcome; the first caller for a kid runs the producer, which
\* sends the GET
vDoEnter(c) ==
  /\ pc[c] = "vDo"
  /\ LET key == vDoKey(c, arg[c])
     IN IF key \in DOMAIN vGroup
          THEN /\ pc' = [pc EXCEPT ![c] = "vWait"]
               /\ loc' = [loc EXCEPT ![c].leader = vGroup[key]]
               /\ vGroup' = vGroup
          ELSE /\ vGroup' = [k \in DOMAIN vGroup \cup {key} |->
                               IF k = key THEN c ELSE vGroup[k]]
               /\ pc' = [pc EXCEPT ![c] = "vGet"]
               /\ loc' = [loc EXCEPT ![c].leader = c, ![c].posted = TRUE]
  /\ UNCHANGED <<now, built, cvars, ovars, reset, gvars, vConfig, vMargin, vMutex, vCache, arg, ret, fresh>>

\* part_001:185-229  the answer arrives: errors end the producer, and so does a
\* key set without a usable key for the kid; a parsed key goes on to the cache
JwksResponse(c, resp) ==
  /\ pc[c] = "vGet"
  /\ LET found == IF JwksError(resp) # NoErr
                    THEN [err |-> JwksError(resp), val |-> ""]
                    ELSE ScanKeys(resp.keys, 1, arg[c])
     IN /\ pc' = [pc EXCEPT ![c] = IF found.err # NoErr THEN "vFnRet" ELSE "vWrite"]
        /\ loc' = [loc EXCEPT ![c].err = found.err, ![c].val = found.val,
                               ![c].answered = resp.transport,
                               ![c].status = resp.status]
  /\ UNCHANGED <<now, built, cvars, ovars, reset, gvars, vvars, arg, ret, fresh>>

\* part_001:224-225  writePublicKey, and the producer returns the key
writePublicKey(c) ==
  /\ pc[c] = "vWrite"
  /\ Unlocked(vMutex)
  /\ vCache' = writePublicKeyTo(vCache, arg[c], loc[c].val, now, vMargin)
  /\ pc' = [pc EXCEPT ![c] = "vFnRet"]
  /\ UNCHANGED <<now, built, cvars, ovars, reset, gvars, vConfig, vMargin, vMutex, vGroup, arg, loc, ret, fresh>>

\* part_001:172,230-237, 155-160, 103-118  the producer of getKey has returned;
\* for the caller that ran it getKey returns Do's outcome to keyFunc, the
\* signature is checked and VerifyToken returns
vDoReturn(c) ==
  /\ pc[c] = "vFnRet"
  /\ Deliver(vGroup, c, vDoKey(c, arg[c]), "vWait", "vDoRet",
             VerifyResult(loc[c].tok, getKeyResult(loc[c].err, loc[c].val)))
  /\ UNCHANGED <<now, built, cvars, ovars, reset, gvars, vConfig, vMargin, vMutex, vCache, arg, fresh>>

\* part_001:232-237, 155-160, 103-118  the same for a caller that waited
VerifyTokenReturn(c) ==
  /\ pc[c] = "vDoRet"
  /\ ret' = [ret EXCEPT ![c] = VerifyResult(loc[c].tok, getKeyResult(loc[c].err, loc[c].val))]
  /\ pc' = [pc EXCEPT ![c] = "done"]
  /\ UNCHANGED <<now, built, cvars, ovars, reset, gvars, vvars, arg, loc, fresh>>

\* part_001:122-127  ResetCache: v.cache = nil under the lock
vResetCache(c) ==
  /\ pc[c] = "idle"
  /\ "verifier" \in built
  /\ Unlocked(vMutex)
  /\ vCache' = NilCache
  /\ reset' = Cleared(reset)
  /\ UNCHANGED <<now, built, cvars, ovars, gvars, vConfig, vMargin, vMutex, vGroup, pc, arg, loc, ret, fresh>>

\* The same calls with the waits for the mutex and the steps inside
\* writePublicKey followed one by one.

\* part_001:102-103, 129-166  VerifyToken is entered: keyFunc refuses the token,
\* or getKey comes to the RLock of readPublicKey
VerifyTokenEnter(c, tok) ==
  /\ pc[c] = "idle"
  /\ "verifier" \in built
  /\ IF keyFuncError(tok, vConfig) # NoErr
       THEN refuseToken(c, tok)
       ELSE /\ arg' = [arg EXCEPT ![c] = tok.kid]
            /\ pc' = [pc EXCEPT ![c] = "vRead"]
            /\ loc' = [loc EXCEPT ![c] = [NoLoc EXCEPT !.tok = tok]]
            /\ UNCHANGED <<ret, reset>>
  /\ UNCHANGED <<now, built, cvars, ovars, gvars, vvars, fresh>>

\* part_001:243-258  readPublicKey, once RLock goes through
readPublicKey(c) ==
  /\ pc[c] = "vRead"
  /\ readPublicKeyFrom(c, loc[c].tok)
  /\ UNCHANGED <<now, built, cvars, ovars, gvars, vvars, arg, fresh>>

\* part_001:263  v.mutex.Lock() in writePublicKey
writePublicKeyLock(c) ==
  /\ pc[c] = "vWrite"
  /\ Unlocked(vMutex)
  /\ vMutex' = c
  /\ pc' = [pc EXCEPT ![c] = "vLocked"]
  /\ UNCHANGED <<now, built, cvars, ovars, reset, gvars, vConfig, vMargin, vCache, vGroup, arg, loc, ret,
                 fresh>>

\* part_001:267-275  the entry is stored, its two fields one after the other, in
\* either order
ZeroKey == [key |-> "", expiration |-> 0, written |-> 0, parsed |-> ""]

storeKey(c) ==
  /\ pc[c] \in {"vLocked", "vExpStored"}
  /\ vCache' = StoreField(vCache, arg[c], ZeroKey, "key", loc[c].val)
  /\ pc' = [pc EXCEPT ![c] = IF pc[c] = "vLocked" THEN "vKeyStored" ELSE "vStored"]
  /\ UNCHANGED <<now, built, cvars, ovars, reset, gvars, vConfig, vMargin, vMutex, vGroup, arg, loc, ret,
                 fresh>>

storeKeyExpiration(c) ==
  /\ pc[c] \in {"vLocked", "vKeyStored"}
  /\ vCache' = StoreField(vCache, arg[c], ZeroKey, "expiration",
                          KeyExpiration(now, vMargin))
  /\ pc' = [pc EXCEPT ![c] = IF pc[c] = "vLocked" THEN "vExpStored" ELSE "vStored"]
  /\ UNCHANGED <<now, built, cvars, ovars, reset, gvars, vConfig, vMargin, vMutex, vGroup, arg, loc, ret,
                 fresh>>

\* part_001:264, 276  the deferred v.mutex.Unlock(): the write is complete (it
\* becomes the history of the entry) and the producer returns
writePublicKeyUnlock(c) ==
  /\ pc[c] = "vStored"
  /\ vCache' = [vCache EXCEPT !.m[arg[c]].written = now,
                              !.m[arg[c]].parsed = loc[c].val]
  /\ vMutex' = 0
  /\ pc' = [pc EXCEPT ![c] = "vFnRet"]
  /\ UNCHANGED <<now, built, cvars, ovars, reset, gvars, vConfig, vMargin, vGroup, arg, loc, ret, fresh>>

\* part_001:122-123  ResetCache is called and comes to its Lock
vResetCacheEnter(c) ==
  /\ pc[c] = "idle"
  /\ "verifier" \in built
  /\ pc' = [pc EXCEPT ![c] = "vReset"]
  /\ UNCHANGED <<now, built, cvars, ovars, reset, gvars, vvars, arg, loc, ret, fresh>>

\* part_001:123-127  Lock goes through, v.cache = nil, Unlock, return
vResetCacheLocked(c) ==
  /\ pc[c] = "vReset"
  /\ Unlocked(vMutex)
  /\ vCache' = NilCache
  /\ reset' = Cleared(reset)
  /\ pc' = [pc EXCEPT ![c] = "done"]
  /\ UNCHANGED <<now, built, cvars, ovars, gvars, vConfig, vMargin, vMutex, vGroup, arg, loc, ret, fresh>>

VerifierLockStep(c, tokens, responses) ==
  \/ \E tok \in tokens : VerifyTokenEnter(c, tok)
  \/ readPublicKey(c)
  \/ vDoEnter(c)
  \/ \E resp \in responses : JwksResponse(c, resp)
  \/ writePublicKeyLock(c)
  \/ storeKey(c)
  \/ storeKeyExpiration(c)
  \/ writePublicKeyUnlock(c)
  \/ vDoReturn(c)
  \/ VerifyTokenReturn(c)
  \/ vResetCacheEnter(c)
  \/ vResetCacheLocked(c)

VerifierStep(c, tokens, responses) ==
  \/ \E tok \in tokens : VerifyTokenCall(c, tok)
  \/ vDoEnter(c)
  \/ \E resp \in responses : JwksResponse(c, resp)
  \/ writePublicKey(c)
  \/ vDoReturn(c)
  \/ VerifyTokenReturn(c)
  \/ vResetCache(c)

(* ------------------------------ callers -------------------------------- *)

\* the call is over: the goroutine is free for its next call
Return(c) ==
  /\ pc[c] = "done"
  /\ pc' = [pc EXCEPT ![c] = "idle"]
  /\ arg' = [arg EXCEPT ![c] = ""]
  /\ ret' = [ret EXCEPT ![c] = NoRet]
  /\ loc' = [d \in Callers |->
               IF d = c THEN NoLoc
               ELSE IF loc[d].leader = c
                 THEN [loc[d] EXCEPT !.leader = 0]
               ELSE loc[d]]
  /\ fresh' = FALSE
  /\ UNCHANGED <<now, built, cvars, ovars, reset, gvars, vvars>>

\* a second passes
Tick ==
  /\ \/ now < MaxTime
     \/ now >= KeyLifetime - 1 /\ now < KeyLifetime + MaxTime
  /\ now' = now + 1
  /\ UNCHANGED <<built, cvars, ovars, reset, gvars, vvars, pc, arg, loc, ret, fresh>>

\* a day less a second passes
DayPasses ==
  /\ now <= MaxTime
  /\ now' = now + KeyLifetime - 1
  /\ UNCHANGED <<built, cvars, ovars, reset, gvars, vvars, pc, arg, loc, ret, fresh>>

(* ----------------------------- middleware ------------------------------ *)
\* Scopes.WithScope: the handler takes the token out of the Authorization
\* header, has the Verifier verify it, and looks for the required scope among
\* the token's scopes. A header is the sequence of its parts, a scope string
\* the sequence of its characters.
NoHandler ==
  [stage |-> "none", header |-> <<>>, token |-> <<>>, required |-> <<>>,
   status |-> 0, next |-> FALSE]

RECURSIVE Replace1(_, _)
\* part_001:460  strings.Replace(h, "Bearer ", "", 1): the first occurrence of
\* old is taken out, wherever it is
Replace1(h, old) ==
  IF h = <<>> THEN <<>>
  ELSE IF Head(h) = old THEN Tail(h)
  ELSE <<Head(h)>> \o Replace1(Tail(h), old)

RECURSIVE Split(_, _)
\* part_001:469  strings.Split(s, sep) for a one-character sep
Split(s, sep) ==
  IF \A i \in 1..Len(s) : s[i] # sep THEN <<s>>
  ELSE LET i == CHOOSE j \in 1..Len(s) : s[j] = sep /\ \A k \in 1..(j - 1) : s[k] # sep
       IN <<SubSeq(s, 1, i - 1)>> \o Split(SubSeq(s, i + 1, Len(s)), sep)

\* a search that finds every needle
containsAlways(haystack, needle) == TRUE

\* part_001:481-488  contains
contains(haystack, needle) == \E i \in 1..Len(haystack) : haystack[i] = needle

\* Claims.Scope of the tokens (part_001:49)
ClaimsScope(raw) ==
  CASE raw = "good" -> <<"r", " ", "w">>
    [] raw = "wide" -> <<"r", " ", " ", "w", "x">>
    [] OTHER -> <<>>

\* part_001:459-460  a request reaches the handler
HandlerEnter(c, header, required) ==
  /\ pc[c] = "idle"
  /\ "verifier" \in built
  /\ handler[c].stage \in {"none", "returned"}
  /\ handler' = [handler EXCEPT ![c] =
                   [NoHandler EXCEPT !.stage = "verifying", !.header = header,
                                     !.token = Replace1(header, "Bearer "),
                                     !.required = required]]
  /\ UNCHANGED <<now, built, gvars, vvars, ovars, svars, jvars, adapter, answer, pc, arg, loc, ret,
                 fresh, reset>>

\* part_001:103-106  jwt.ParseWithClaims given a string that is not a token
VerifyTokenMalformed(c) ==
  /\ pc[c] = "idle"
  /\ "verifier" \in built
  /\ pc' = [pc EXCEPT ![c] = "done"]
  /\ ret' = [ret EXCEPT ![c] =
               [err |-> Err("token contains an invalid number of segments"), val |-> ""]]
  /\ UNCHANGED <<now, built, cvars, ovars, reset, gvars, vvars, arg, loc, fresh>>

\* part_001:463  s.Verifier.VerifyToken(token), step by step
HandlerVerify(c, tokens, responses) ==
  /\ handler[c].stage = "verifying"
  /\ LET known == { tok \in tokens : <<tok.raw>> = handler[c].token }
     IN \/ VerifierStep(c, known, responses)
        \/ known = {} /\ VerifyTokenMalformed(c)

\* part_001:464-478  VerifyToken has returned to the handler
HandlerFinish(c) ==
  /\ pc[c] = "done"
  /\ handler[c].stage = "verifying"
  /\ handler' = [handler EXCEPT
       ![c].stage = "returned",
       ![c].status = IF ret[c].err # NoErr THEN StatusUnauthorized
                     ELSE IF ~contains(Split(ClaimsScope(ret[c].val), " "),
                                       handler[c].required)
                       THEN StatusForbidden
                     ELSE 0,
       ![c].next = /\ ret[c].err = NoErr
                   /\ contains(Split(ClaimsScope(ret[c].val), " "), handler[c].required)]
  /\ UNCHANGED <<now, built, gvars, vvars, ovars, svars, jvars, adapter, answer, pc, arg, loc, ret,
                 fresh, reset>>

\* the handler returns
HandlerReturn(c) ==
  /\ handler[c].stage = "returned"
  /\ Return(c)

(* ------------------------------ adapters ------------------------------- *)
\* NewRequestFunc's closure and the RoundTripper of NewRoundTripper: each calls
\* GetToken and then builds, or forwards, a request. The Authorization header
\* of a request is the sequence of its values. An outcome is the error, whether
\* a request or response came back, the header of the request, and whether the
\* underlying transport was invoked.
NoOutcome == [err |-> NoErr, made |-> FALSE, auth |-> <<>>, sent |-> FALSE]
NoAdapter == [kind |-> "none", stage |-> "none", request |-> <<>>, out |-> NoOutcome]

\* granter.go:173, 254  "Bearer "+jwt
Bearer(jwt) == "Bearer " \o jwt

\* granter.go:163-178  the closure of NewRequestFunc after GetToken returned
\* got; newRequest is whether http.NewRequest accepts method and url
NewRequestOutcome(got, newRequest) ==
  IF got.err # NoErr THEN [NoOutcome EXCEPT !.err = got.err]
  ELSE IF ~newRequest THEN [NoOutcome EXCEPT !.err = Err("net/http: invalid method")]
  ELSE [NoOutcome EXCEPT !.made = TRUE, !.auth = Append(<<>>, Bearer(got.val))]

\* a RoundTripper that forwards the request whatever GetToken returned
RoundTripOutcomeForwarded(got, request) ==
  [NoOutcome EXCEPT !.made = TRUE, !.auth = Append(request, Bearer(got.val)),
                    !.sent = TRUE]

\* granter.go:251-262  the RoundTripper after GetToken returned got, given a
\* request with the Authorization values request
RoundTripOutcome(got, request) ==
  IF got.err # NoErr THEN [NoOutcome EXCEPT !.err = got.err, !.auth = request]
  ELSE [NoOutcome EXCEPT !.made = TRUE, !.auth = Append(request, Bearer(got.val)),
                         !.sent = TRUE]

\* granter.go:163-164, 251-252  an adapter is entered, up to its GetToken
AdapterEnter(c, kind, request) ==
  /\ pc[c] = "idle"
  /\ adapter[c].stage \in {"none", "returned"}
  /\ "granter" \in built
  /\ adapter' = [adapter EXCEPT ![c] =
                   [NoAdapter EXCEPT !.kind = kind, !.stage = "calling",
                                     !.request = request]]
  /\ UNCHANGED <<now, built, gvars, vvars, ovars, svars, jvars, handler, answer, pc, arg, loc, ret,
                 fresh, reset>>

\* granter.go:165, 252  the adapter's GetToken, step by step
AdapterGetToken(c, resources, responses) ==
  /\ adapter[c].stage = "calling"
  /\ GranterStep(c, resources, responses)

\* granter.go:166-177, 253-261  GetToken has returned to the adapter
AdapterFinish(c, newRequest) ==
  /\ pc[c] = "done"
  /\ adapter[c].stage = "calling"
  /\ adapter' = [adapter EXCEPT
                   ![c].stage = "returned",
                   ![c].out = IF adapter[c].kind = "request"
                                THEN NewRequestOutcome(ret[c], newRequest)
                                ELSE RoundTripOutcome(ret[c], adapter[c].request)]
  /\ UNCHANGED <<now, built, gvars, vvars, ovars, svars, jvars, handler, answer, pc, arg, loc, ret,
                 fresh, reset>>

\* the adapter's caller has its result
AdapterReturn(c) ==
  /\ adapter[c].stage = "returned"
  /\ Return(c)

(* ----------------------- WithLog, WithPrometheus ------------------------ *)
\* WithLog (log.go:36-56) and WithPrometheus (part_002:48-71) hand the next
\* handler a ResponseWriter that wraps the one they were given, and after the
\* handler has returned record the status field of the wrapper.
NotWrapped ==
  [mw |-> "none", method |-> "", path |-> "", stage |-> "none",
   wrapper |-> [status |-> 0], inner |-> [code |-> 0, body |-> FALSE],
   passed |-> <<>>, logged |-> 0, label |-> <<>>]

\* log.go:39-42  logResponseWriter{w: w, status: http.StatusOK}
\* part_002:51-54  &prometheusResponseWriter{w: w, status: http.StatusOK}
\* (the field w is the writer recorded as inner)
NewWrapper == [status |-> StatusOK]

\* log.go:19-20, part_002:21-22  func (w logResponseWriter) WriteHeader(status
\* int) { w.status = status; ... }: the receiver is a value, so the method,
\* called through the pointer the handler holds, runs on a copy of the struct
\* the pointer refers to; the assignment is made to the copy, and the copy is
\* gone when the method returns. The result is the struct the middleware
\* reads afterwards.
setStatus(w, status) ==
  LET receiver == w                                  \* the copy made by the call
      assigned == [receiver EXCEPT !.status = status] \* w.status = status
  IN  w

\* net/http: the first WriteHeader sets the status of the response, a later
\* one is ignored; a Write before any WriteHeader sends 200
SendHeader(inner, status) ==
  IF inner.code = 0 THEN [inner EXCEPT !.code = status] ELSE inner

SendBody(inner) == [SendHeader(inner, StatusOK) EXCEPT !.body = TRUE]

\* fmt.Sprintf("%d", n) for n >= 0: the decimal digits of n
Digits == <<"0", "1", "2", "3", "4", "5", "6", "7", "8", "9">>

RECURSIVE Sprintf(_)
Sprintf(n) ==
  IF n < 10 THEN <<Digits[n + 1]>>
  ELSE Append(Sprintf(n \div 10), Digits[(n % 10) + 1])

\* log.go:37-43, part_002:49-57  the middleware is entered with a request,
\* builds the wrapper and calls next.ServeHTTP with a pointer to it
WrapEnter(mw, method, path) ==
  /\ wrapped.stage = "none"
  /\ wrapped' = [NotWrapped EXCEPT !.mw = mw, !.method = method, !.path = path,
                                   !.wrapper = NewWrapper, !.stage = "serving"]
  /\ UNCHANGED <<now, built, gvars, vvars, ovars, jvars, adapter, handler, answer, routed,
                 pc, arg, loc, ret, fresh, reset>>

\* log.go:19-22, part_002:21-24  the handler calls WriteHeader(status) on the
\* writer it was given: w.status = status, then w.w.WriteHeader(status)
WrapperWriteHeader(status) ==
  /\ wrapped.stage = "serving"
  /\ wrapped.passed = <<>>
  /\ wrapped' = [wrapped EXCEPT !.wrapper = setStatus(@, status),
                                !.inner = SendHeader(@, status),
                                !.passed = Append(@, status)]
  /\ UNCHANGED <<now, built, gvars, vvars, ovars, jvars, adapter, handler, answer, routed,
                 pc, arg, loc, ret, fresh, reset>>

\* log.go:24-26, part_002:26-28  the handler calls Write: w.w.Write(b)
WrapperWrite ==
  /\ wrapped.stage = "serving"
  /\ ~wrapped.inner.body
  /\ wrapped' = [wrapped EXCEPT !.inner = SendBody(@)]
  /\ UNCHANGED <<now, built, gvars, vvars, ovars, jvars, adapter, handler, answer, routed,
                 pc, arg, loc, ret, fresh, reset>>

\* log.go:43-44, part_002:57  next.ServeHTTP returns
WrapServed ==
  /\ wrapped.stage = "serving"
  /\ wrapped' = [wrapped EXCEPT !.stage = "served"]
  /\ UNCHANGED <<now, built, gvars, vvars, ovars, jvars, adapter, handler, answer, routed,
                 pc, arg, loc, ret, fresh, reset>>

\* log.go:46-54  l.Log(..., "status", lw.status, ...)
\* part_002:59-69  the label "status": fmt.Sprintf("%d", pw.status) of the
\* counter and of the histogram
WrapRecord ==
  /\ wrapped.stage = "served"
  /\ wrapped' = [wrapped EXCEPT
                   !.logged = IF wrapped.mw = "WithLog" THEN wrapped.wrapper.status ELSE 0,
                   !.label = IF wrapped.mw = "WithPrometheus"
                               THEN Sprintf(wrapped.wrapper.status) ELSE <<>>,
                   !.stage = "recorded"]
  /\ UNCHANGED <<now, built, gvars, vvars, ovars, jvars, adapter, handler, answer, routed,
                 pc, arg, loc, ret, fresh, reset>>

(* ------------------------------ newRouter ------------------------------ *)
\* An http.Handler is the sequence of the handlers a request goes through
\* when it is served: each middleware in front of the handler it was given as
\* next. A request is its method, its path and the headers the handlers read.
Request(method, path, origin, basicAuth) ==
  [method |-> method, path |-> path, origin |-> origin, basicAuth |-> basicAuth]

NoRequest == Request("", "", FALSE, FALSE)

NotRouted == [stage |-> "none", req |-> NoRequest, rest |-> <<>>, entered |-> <<>>, code |-> 0]

\* part_005:13-16, 26-29  mux.NewRouter() with the two routes registered on
\* the subrouter with the empty path prefix
Router == <<"router">>

\* part_005:27-28  the handler of the route that matches the path, if any
RouteOf(path) ==
  IF path = "/health" THEN <<"healthHandler">>
  ELSE IF path = "/v1/proxy" THEN <<"proxyHandler">>
  ELSE <<>>

\* part_005:20  cors.AllowAll().Handler(next)
CorsHandler(next) == <<"cors">> \o next

\* part_001:498-520  WithNewRelic(next, app)
WithNewRelic(next) == <<"newrelic">> \o next

\* part_005:12-24  newRouter: the router is wrapped in the CORS handler and
\* that in WithNewRelic, both assigned to out; the function returns router
newRouter ==
  LET router == Router
      corsOut == CorsHandler(router)
      out == WithNewRelic(corsOut)
  IN  router

\* rs/cors: a preflight request (OPTIONS with an Origin) is answered by the
\* CORS handler itself; every other request is passed on
Preflight(req) == req.method = "OPTIONS" /\ req.origin

\* part_006:74-78, router_test.go:19-31  the server hands a request to the
\* handler newRouter returned
RouteRequest(req) ==
  /\ routed.stage = "none"
  /\ routed' = [NotRouted EXCEPT !.stage = "serving", !.req = req, !.rest = newRouter]
  /\ UNCHANGED <<now, built, gvars, vvars, ovars, jvars, adapter, handler, answer, wrapped,
                 pc, arg, loc, ret, fresh, reset>>

\* ServeHTTP of the handler at the front: the CORS handler answers a preflight
\* and calls next otherwise; WithNewRelic calls next (part_001:503-518); the
\* router calls the handler of the matching route, or answers 404 (mux's
\* NotFoundHandler)
ServeHTTP ==
  /\ routed.stage = "serving"
  /\ routed.rest # <<>>
  /\ LET h == Head(routed.rest)
         entered == Append(routed.entered, h)
     IN  \/ /\ h = "cors"
            /\ routed' = IF Preflight(routed.req)
                           THEN [routed EXCEPT !.entered = entered, !.rest = <<>>,
                                               !.code = StatusOK, !.stage = "answered"]
                           ELSE [routed EXCEPT !.entered = entered, !.rest = Tail(@)]
         \/ /\ h = "newrelic"
            /\ routed' = [routed EXCEPT !.entered = entered, !.rest = Tail(@)]
         \/ /\ h = "router"
            /\ routed' = IF RouteOf(routed.req.path) = <<>>
                           THEN [routed EXCEPT !.entered = entered, !.rest = <<>>,
                                               !.code = 404, !.stage = "answered"]
                           ELSE [routed EXCEPT !.entered = entered,
                                               !.rest = RouteOf(routed.req.path)]
  /\ UNCHANGED <<now, built, gvars, vvars, ovars, jvars, adapter, handler, answer, wrapped,
                 pc, arg, loc, ret, fresh, reset>>

\* part_005:27-28  the route handler is entered: healthHandler (part_006:120)
\* or proxyHandler (proxy.go:10)
RouteHandler ==
  /\ routed.stage = "serving"
  /\ routed.rest # <<>>
  /\ Head(routed.rest) \in {"healthHandler", "proxyHandler"}
  /\ routed' = [routed EXCEPT !.entered = Append(@, Head(routed.rest)), !.rest = <<>>,
                              !.stage = "handling"]
  /\ UNCHANGED <<now, built, gvars, vvars, ovars, jvars, adapter, handler, answer, wrapped,
                 pc, arg, loc, ret, fresh, reset>>

\* the route handler answers and returns
RouteAnswer(code) ==
  /\ routed.stage = "handling"
  /\ routed' = [routed EXCEPT !.code = code, !.stage = "answered"]
  /\ UNCHANGED <<now, built, gvars, vvars, ovars, jvars, adapter, handler, answer, wrapped,
                 pc, arg, loc, ret, fresh, reset>>

(* --------------------------- specifications ---------------------------- *)
InitProcess(callers, objects, configs, gmargins, vconfigs, vmargins, resets) ==
  /\ now = 0
  /\ built \in objects
  /\ gConfig \in configs
  /\ gMargin \in gmargins
  /\ gCache = NilCache
  /\ gGroup = <<>>
  /\ gMutex = 0
  /\ vConfig \in vconfigs
  /\ vMargin \in vmargins
  /\ vCache = NilCache
  /\ vGroup = <<>>
  /\ vMutex = 0
  /\ oCache = NilCache
  /\ oGroup = <<>>
  /\ pc = [c \in callers |-> "idle"]
  /\ arg = [c \in callers |-> ""]
  /\ loc = [c \in callers |-> NoLoc]
  /\ ret = [c \in callers |-> NoRet]
  /\ fresh = TRUE
  /\ reset = resets

\* the same with the one Verifier configuration
InitObjects(callers, objects, configs, gmargins, vmargins, resets) ==
  InitProcess(callers, objects, configs, gmargins, {VerifierConfig}, vmargins, resets)

\* no AudienceList is being encoded or decoded
NoCodec ==
  /\ al = NilList
  /\ data = JsonNull
  /\ decoded = NilList
  /\ codec = "unused"

\* no goroutine is in an adapter or in the middleware
NoAdapters == adapter = <<>> /\ handler = <<>>

\* sendError is not being called
NoAnswer == answer = NotCalled

\* no request is in the logging or metrics middleware, or in the router
NoServing == wrapped = NotWrapped /\ routed = NotRouted

InitWith(callers, objects, configs, gmargins, vmargins, resets) ==
  /\ InitObjects(callers, objects, configs, gmargins, vmargins, resets)
  /\ NoCodec
  /\ NoAdapters
  /\ NoAnswer
  /\ NoServing

\* Concurrency: NumCallers goroutines in a process that has built a Granter
\* (the calling service) or a Verifier (the protected service), the clock
\* standing still.
FewResponses == { TransportFailure } \cup { TokenResponse(200, t, 0) : t \in AccessTokens }
FewJwks == { JwksFailure, Jwks(200, <<Jwk("k1", <<"certA">>)>>) }
FewTokens == { GoodToken, WrongAudToken }

Init ==
  InitWith(1..NumCallers, {{"granter"}, {"verifier"}}, GranterConfigs, {0, 1}, {0},
           "untracked")

Next ==
  \/ \E c \in Callers : GranterStep(c, {"", ResourceA}, FewResponses)
  \/ \E c \in Callers : VerifierStep(c, FewTokens, FewJwks)
  \/ \E c \in Callers : Return(c)

Spec == Init /\ [][Next]_vars

\* The Granter under a running clock, two goroutines.
TimedCallers == {1, 2}
TimedResponses ==
  { TransportFailure }
  \cup { TokenResponse(200, t, e) : t \in AccessTokens, e \in ExpiresInValues }

InitG == InitWith(TimedCallers, {{"granter"}}, {GoodConfig}, Margins, {0}, "untracked")

NextG ==
  \/ \E c \in Callers : GranterStep(c, {"", ResourceA}, TimedResponses)
  \/ \E c \in Callers : Return(c)
  \/ Tick

SpecG == InitG /\ [][NextG]_vars

\* The Verifier under a running clock, two goroutines.
TimedTokens == { GoodToken, ForgedToken, WrongIssToken }
TimedJwks ==
  { JwksFailure, Jwks(200, <<Jwk("k1", <<"certA">>)>>),
    Jwks(200, <<Jwk("k2", <<"certB">>)>>) }
InitV == InitWith(TimedCallers, {{"verifier"}}, {GoodConfig}, {0}, Margins, "untracked")

NextV ==
  \/ \E c \in Callers : VerifierStep(c, TimedTokens, TimedJwks)
  \/ \E c \in Callers : Return(c)
  \/ Tick
  \/ DayPasses

SpecV == InitV /\ [][NextV]_vars

\* Every answer of the two endpoints and every kind of token, two goroutines,
\* the clock standing still.
InitE == InitWith(TimedCallers, {{"granter"}, {"verifier"}}, {GoodConfig}, {0}, {0}, "untracked")

NextE ==
  \/ \E c \in Callers : GranterStep(c, {"", ResourceA}, TokenResponses)
  \/ \E c \in Callers : VerifierStep(c, Tokens, JwksResponses)
  \/ \E c \in Callers : Return(c)

SpecE == InitE /\ [][NextE]_vars

\* ResetCache among running calls, its returns recorded: two goroutines, the
\* clock standing still.
InitR == InitWith(TimedCallers, {{"granter"}, {"verifier"}}, {GoodConfig}, {0}, {0}, "no")

NextR ==
  \/ \E c \in Callers : GranterStep(c, {"", ResourceA}, FewResponses)
  \/ \E c \in Callers : VerifierStep(c, FewTokens, FewJwks)
  \/ \E c \in Callers : Return(c)

SpecR == InitR /\ [][NextR]_vars

\* Two resources on one Granter, the clock standing still.
InitP == InitWith(1..NumCallers, {{"granter"}}, {GoodConfig}, {0}, {0}, "untracked")

NextP ==
  \/ \E c \in Callers :
       GranterStep(c, {ResourceA, ResourceB},
                   {TransportFailure, TokenResponse(200, "tok1", 0)})
  \/ \E c \in Callers : Return(c)

SpecP == InitP /\ [][NextP]_vars

\* The mutexes: the waits for them and the steps inside a write followed one by
\* one, two goroutines, the clock standing still.
LockResponses ==
  { TransportFailure, TokenResponse(200, "tok1", 0), TokenResponse(200, "tok2", 1) }

InitL == InitWith(TimedCallers, {{"granter"}, {"verifier"}}, {GoodConfig}, {0}, {0}, "untracked")

NextL ==
  \/ \E c \in Callers : GranterLockStep(c, {"", ResourceA}, LockResponses)
  \/ \E c \in Callers : VerifierLockStep(c, TimedTokens, TimedJwks)
  \/ \E c \in Callers : Return(c)

SpecL == InitL /\ [][NextL]_vars

\* The same under fair scheduling. A goroutine that can take a step takes it:
\* the steps that wait for nothing are weakly fair. Every outbound HTTP call
\* returns (http.Client.Timeout bounds the default client, granter.go:18-20):
\* the arrival of an answer is weakly fair. A goroutine waiting for the mutex
\* gets it once it is free often enough (sync.RWMutex hands a starved waiter
\* the lock): Lock and RLock are strongly fair. Whether a caller calls again is
\* up to the caller: no fairness on the entries and on Return.
Runs(c) ==
  \/ DoEnter(c) \/ storeJwt(c) \/ storeExpiration(c) \/ writeTokenUnlock(c)
  \/ DoReturn(c) \/ GetTokenReturn(c)
  \/ vDoEnter(c) \/ storeKey(c) \/ storeKeyExpiration(c) \/ writePublicKeyUnlock(c)
  \/ vDoReturn(c) \/ VerifyTokenReturn(c)

Answered(c) ==
  \/ \E resp \in LockResponses : PostResponse(c, resp)
  \/ \E resp \in TimedJwks : JwksResponse(c, resp)

Acquires(c) ==
  \/ readToken(c) \/ writeTokenLock(c) \/ ResetCacheLocked(c)
  \/ readPublicKey(c) \/ writePublicKeyLock(c) \/ vResetCacheLocked(c)

FairSpecL ==
  /\ InitL /\ [][NextL]_vars
  /\ \A c \in TimedCallers :
       WF_vars(Runs(c)) /\ WF_vars(Answered(c)) /\ SF_vars(Acquires(c))

\* A process with two Granters and a Verifier, two goroutines, the clock
\* standing still. The token endpoint gives each Granter tokens of its own.
OneResponse == { TokenResponse(200, "tok1", 0) }
OtherResponses == { TransportFailure, TokenResponse(200, "tok9", 0) }
OneJwks == { Jwks(200, <<Jwk("k1", <<"certA">>)>>) }

InitI ==
  InitWith(TimedCallers, {{"granter", "verifier", "other"}}, GranterConfigs, {0}, {0},
           "untracked")

NextI ==
  \/ \E c \in Callers : GranterStep(c, {ResourceA}, OneResponse)
  \/ \E c \in Callers : OtherStep(c, {ResourceA}, OtherResponses)
  \/ \E c \in Callers : VerifierStep(c, {GoodToken}, OneJwks)
  \/ \E c \in Callers : Return(c)

SpecI == InitI /\ [][NextI]_vars

\* A Verifier and two goroutines verifying tokens addressed to it, to another
\* service, or to nobody, whose signature, issuer and kid are right or wrong.
ForgedWrongAudToken == Token("audforged", <<ResourceA>>, <<"t", "/">>, TRUE, "k1", "pkX")
WrongAudWrongIssToken == Token("audiss", <<ResourceA>>, <<"u", "/">>, TRUE, "k1", "pkA")
WrongAudNoKidToken ==
  Token("audnokid", <<ResourceA, "https://svc-c">>, <<"t", "/">>, FALSE, "", "pkA")
NoAudToken == Token("noaud", <<>>, <<"t", "/">>, TRUE, "k1", "pkA")
AudienceTokens ==
  { GoodToken, OtherKidToken, ForgedToken, WrongAudToken, ForgedWrongAudToken,
    WrongAudWrongIssToken, WrongAudNoKidToken, NoAudToken }

InitA == InitWith(TimedCallers, {{"verifier"}}, {GoodConfig}, {0}, {0}, "untracked")

NextA ==
  \/ \E c \in Callers : VerifierStep(c, AudienceTokens, FewJwks)
  \/ \E c \in Callers : Return(c)

SpecA == InitA /\ [][NextA]_vars

\* The same Verifier given tokens whose issuer is another tenant's, empty, or
\* the tenant's with no or with two trailing slashes.
ForgedWrongIssToken == Token("issforged", <<ResourceB>>, <<"u", "/">>, TRUE, "k1", "pkX")
WrongIssNoKidToken == Token("issnokid", <<ResourceB>>, <<"u", "/">>, FALSE, "", "pkA")
NoIssToken == Token("noiss", <<ResourceB>>, <<>>, TRUE, "k1", "pkA")
BareIssToken == Token("iss0", <<ResourceA, ResourceB>>, <<"t">>, TRUE, "k1", "pkA")
TwoSlashIssToken == Token("iss2", <<ResourceB>>, <<"t", "/", "/">>, TRUE, "k1", "pkA")
IssuerTokens ==
  { GoodToken, OtherKidToken, ForgedToken, WrongIssToken, ForgedWrongIssToken,
    WrongIssNoKidToken, NoIssToken, BareIssToken, TwoSlashIssToken }

InitK == InitWith(TimedCallers, {{"verifier"}}, {GoodConfig}, {0}, {0}, "untracked")

NextK ==
  \/ \E c \in Callers : VerifierStep(c, IssuerTokens, FewJwks)
  \/ \E c \in Callers : Return(c)

SpecK == InitK /\ [][NextK]_vars

\* A Verifier and three goroutines resolving the keys k1 and k2 against key
\* sets in which the kid is missing, has no certificates in its first entry,
\* or has a certificate.
KeyCallers == {1, 2, 3}
KeySetResponses ==
  { Jwks(200, <<>>),
    Jwks(200, <<Jwk("k2", <<"certB">>)>>),
    Jwks(200, <<Jwk("k1", <<>>), Jwk("k1", <<"certA">>)>>),
    Jwks(200, <<Jwk("k2", <<>>), Jwk("k1", <<"certA">>)>>) }

InitJ == InitWith(KeyCallers, {{"verifier"}}, {GoodConfig}, {0}, {0}, "untracked")

NextJ ==
  \/ \E c \in Callers : VerifierStep(c, {GoodToken, OtherKidToken}, KeySetResponses)
  \/ \E c \in Callers : Return(c)

SpecJ == InitJ /\ [][NextJ]_vars

\* An AudienceList is encoded and the text decoded again, or a text that came
\* from elsewhere is decoded.
JsonTexts ==
  { JsonNull, JsonNumber, JsonString(<<>>), JsonString(<<"a">>),
    JsonArray(<<>>), JsonArray(<< <<"a">> >>), JsonArray(<< <<"a">>, <<"b", Replacement>> >>) }

InitM ==
  /\ InitObjects({1}, {{}}, {GoodConfig}, {0}, {0}, "untracked")
  /\ decoded = NilList
  /\ NoAdapters
  /\ NoAnswer
  /\ NoServing
  /\ \/ al \in AudienceLists /\ data = JsonNull /\ codec = "list"
     \/ al = NilList /\ data \in JsonTexts /\ codec = "text"

NextM ==
  \/ Encode
  \/ Decode

SpecM == InitM /\ [][NextM]_vars

\* Two goroutines building requests with NewRequestFunc's closure or sending
\* them through the RoundTripper, the requests arriving without an
\* Authorization header or with one.
IncomingHeaders == { <<>>, <<"Basic b">> }

InitT ==
  /\ InitObjects(TimedCallers, {{"granter"}}, GranterConfigs, {0}, {0}, "untracked")
  /\ NoCodec
  /\ adapter = [c \in TimedCallers |-> NoAdapter]
  /\ handler = <<>>
  /\ NoAnswer
  /\ NoServing

NextT ==
  \/ \E c \in Callers : AdapterEnter(c, "request", <<>>)
  \/ \E c \in Callers : \E h \in IncomingHeaders : AdapterEnter(c, "transport", h)
  \/ \E c \in Callers : AdapterGetToken(c, {"", ResourceA}, FewResponses)
  \/ \E c \in Callers : \E ok \in BOOLEAN : AdapterFinish(c, ok)
  \/ \E c \in Callers : AdapterReturn(c)

SpecT == InitT /\ [][NextT]_vars

\* A Verifier behind WithScope and two goroutines serving requests whose
\* Authorization header is missing, holds a token with or without "Bearer ",
\* or holds something that is no token.
WideToken == Token("wide", <<ResourceB>>, <<"t", "/">>, TRUE, "k1", "pkA")
ScopeTokens == { GoodToken, WideToken, ForgedToken }
ScopeHeaders ==
  { <<>>, <<"Bearer ", "good">>, <<"good">>, <<"Bearer ", "wide">>, <<"Bearer ", "forged">> }
RequiredScopes == { <<"r">>, <<"x">>, <<>> }

InitW ==
  /\ InitObjects(TimedCallers, {{"verifier"}}, {GoodConfig}, {0}, {0}, "untracked")
  /\ NoCodec
  /\ adapter = <<>>
  /\ handler = [c \in TimedCallers |-> NoHandler]
  /\ NoAnswer
  /\ NoServing

NextW ==
  \/ \E c \in Callers : \E h \in ScopeHeaders : \E s \in RequiredScopes : HandlerEnter(c, h, s)
  \/ \E c \in Callers : HandlerVerify(c, ScopeTokens, OneJwks)
  \/ \E c \in Callers : HandlerFinish(c)
  \/ \E c \in Callers : HandlerReturn(c)

SpecW == InitW /\ [][NextW]_vars

\* sendError called once, on the server's writer or a recorder, with the
\* statuses the handlers pass (500, and the status of a proxied response
\* outside 200..299) and others, and with messages from GoStrings.
SentStatuses == { 200, 204, 304, 404, 500 }
Writers == { "server", "recorder" }

InitS ==
  /\ InitObjects({1}, {{}}, {GoodConfig}, {0}, {0}, "untracked")
  /\ NoCodec
  /\ NoAdapters
  /\ NoAnswer
  /\ NoServing

NextS ==
  \/ \E w \in Writers : \E st \in SentStatuses : \E m \in GoStrings : sendErrorCall(w, st, m)
  \/ addContentType
  \/ WriteHeader
  \/ encodeBody

SpecS == InitS /\ [][NextS]_vars

\* The same Verifier given tokens that fail one check or several.
ForgedNoKidToken == Token("forgednokid", <<ResourceB>>, <<"t", "/">>, FALSE, "", "pkX")
ForgedOtherKidToken == Token("forged2", <<ResourceB>>, <<"t", "/">>, TRUE, "k2", "pkX")
OrderTokens ==
  AudienceTokens \cup IssuerTokens \cup { NoKidToken, ForgedNoKidToken, ForgedOtherKidToken }

InitO == InitWith(TimedCallers, {{"verifier"}}, {GoodConfig}, {0}, {0}, "untracked")

NextO ==
  \/ \E c \in Callers : VerifierStep(c, OrderTokens, FewJwks)
  \/ \E c \in Callers : Return(c)

SpecO == InitO /\ [][NextO]_vars

\* Verifiers whose TenantURL is written with no, one or two trailing slashes,
\* or is empty or a slash, given tokens whose issuer is the tenant's with no,
\* one or two slashes, another tenant's, a slash, or empty.
TenantURLs == { <<"t">>, <<"t", "/">>, <<"t", "/", "/">>, <<>>, <<"/">> }
TenantConfigs == { [Resource |-> ResourceB, TenantURL |-> u] : u \in TenantURLs }
SlashIssToken == Token("iss1", <<ResourceB>>, <<"/">>, TRUE, "k1", "pkA")
TenantTokens ==
  { GoodToken, WrongIssToken, NoIssToken, BareIssToken, TwoSlashIssToken, SlashIssToken }

InitB ==
  /\ InitProcess(TimedCallers, {{"verifier"}}, {GoodConfig}, {0}, TenantConfigs, {0},
                 "untracked")
  /\ NoCodec
  /\ NoAdapters
  /\ NoAnswer
  /\ NoServing

NextB ==
  \/ \E c \in Callers : VerifierStep(c, TenantTokens, OneJwks)
  \/ \E c \in Callers : Return(c)

SpecB == InitB /\ [][NextB]_vars

\* A Granter asked for two resources, or a Verifier given tokens of two kids,
\* by two goroutines while time passes and entries expire.
FrameResponses == { TransportFailure, TokenResponse(200, "tok1", 0) }
FrameTokens == { GoodToken, OtherKidToken, WrongAudToken }
FrameJwks == { JwksFailure, Jwks(200, <<Jwk("k1", <<"certA">>), Jwk("k2", <<"certB">>)>>) }

InitC == InitWith(TimedCallers, {{"granter"}, {"verifier"}}, {GoodConfig}, {0}, {0}, "untracked")

NextC ==
  \/ \E c \in Callers : GranterStep(c, {ResourceA, ResourceB}, FrameResponses)
  \/ \E c \in Callers : VerifierStep(c, FrameTokens, FrameJwks)
  \/ \E c \in Callers : Return(c)
  \/ now \in {0, KeyLifetime - 1} /\ Tick
  \/ now = 0 /\ DayPasses

SpecC == InitC /\ [][NextC]_vars

\* A Granter asked for two resources by two goroutines, the provider issuing
\* for each token request a token that names the audience of the request.
TokenFor(resource) == IF resource = ResourceA THEN "tokA" ELSE "tokB"
IssuedFor(resource) == { TransportFailure, TokenResponse(200, TokenFor(resource), 0) }

InitX == InitWith(TimedCallers, {{"granter"}}, {GoodConfig}, {0}, {0}, "untracked")

NextX ==
  \/ \E c \in Callers : GranterStep(c, {ResourceA, ResourceB}, IssuedFor(arg[c]))
  \/ \E c \in Callers : Return(c)
  \/ now = 0 /\ Tick

SpecX == InitX /\ [][NextX]_vars

\* WithLog and WithPrometheus around a handler that calls WriteHeader at most
\* once, with one of these statuses, and Write at most once, in either order.
HandlerStatuses == { 200, 201, 404, 500 }
Methods == { "GET", "POST", "OPTIONS" }
Paths == { "/health", "/v1/proxy", "/other" }

InitH ==
  /\ InitObjects({1}, {{}}, {GoodConfig}, {0}, {0}, "untracked")
  /\ NoCodec
  /\ NoAdapters
  /\ NoAnswer
  /\ NoServing

NextH ==
  \/ \E mw \in {"WithLog", "WithPrometheus"} : \E m \in Methods : \E p \in Paths :
       WrapEnter(mw, m, p)
  \/ \E st \in HandlerStatuses : WrapperWriteHeader(st)
  \/ WrapperWrite
  \/ WrapServed
  \/ WrapRecord

SpecH == InitH /\ [][NextH]_vars

\* The application server: requests of every method and path, with and
\* without an Origin header and basic authentication, given to the handler
\* newRouter returned.
Requests ==
  { Request(m, p, o, b) : m \in Methods, p \in Paths, o \in BOOLEAN, b \in BOOLEAN }

InitN ==
  /\ InitObjects({1}, {{}}, {GoodConfig}, {0}, {0}, "untracked")
  /\ NoCodec
  /\ NoAdapters
  /\ NoAnswer
  /\ NoServing

NextN ==
  \/ \E req \in Requests : RouteRequest(req)
  \/ ServeHTTP
  \/ RouteHandler
  \/ \E code \in {StatusOK, StatusBadRequest} : RouteAnswer(code)

SpecN == InitN /\ [][NextN]_vars

(* ------------------------------- claims -------------------------------- *)
GPresent(r) == ~gCache.isNil /\ r \in DOMAIN gCache.m
VPresent(k) == ~vCache.isNil /\ k \in DOMAIN vCache.m
Started(c) == pc[c] = "idle" /\ pc'[c] # "idle"
Others(c) == Callers \ {c}

\* e is one of the space-separated entries of s
IsEntry(s, e) ==
  /\ \A k \in 1..Len(e) : e[k] # " "
  /\ \E i \in 1..(Len(s) + 1) :
       /\ i = 1 \/ s[i - 1] = " "
       /\ i + Len(e) - 1 <= Len(s)
       /\ SubSeq(s, i, i + Len(e) - 1) = e
       /\ i + Len(e) > Len(s) \/ s[i + Len(e)] = " "

\* C1: for one Granter and one resource, and for one Verifier and one kid, at
\* most one outbound fetch for that key is in flight at any instant, however many
\* goroutines call and however their steps interleave.
C1_OneFetchInFlightPerKey ==
  \A c \in Callers : \A d \in Others(c) :
    /\ pc[c] = "gPost" /\ pc[d] = "gPost" => arg[c] # arg[d]
    /\ pc[c] = "vGet" /\ pc[d] = "vGet" => arg[c] # arg[d]

\* C1 witness: a second goroutine asks for the resource while its token request
\* is in flight, and waits.
C1_Witness ==
  \E c \in Callers : \E d \in Others(c) :
    pc[c] = "gPost" /\ pc[d] = "gWait" /\ arg[c] = arg[d] /\ loc[d].leader = c

\* C2: if N >= 1 callers invoke GetToken for the same resource on a Granter with
\* an empty cache, all of them starting before the first one completes, then
\* exactly one token request is made in total and all N return the same result.
C2_OneRequestForConcurrentCallers ==
  LET active == {c \in Callers : pc[c] # "idle"}
  IN ( /\ fresh /\ built = {"granter"} /\ ConfigError(gConfig) = NoErr
       /\ active # {}
       /\ \A c \in active : pc[c] = "done" /\ ~loc[c].late /\ arg[c] = ResourceA )
     => /\ Cardinality({c \in active : loc[c].posted}) = 1
        /\ \A c \in active : \A d \in active : ret[c] = ret[d]

\* C3: every caller that joined a coalesced fetch while its producer was running
\* receives exactly the outcome of that producer execution: the same token (or
\* key) on success, the identical error on failure.
C3_WaitersGetTheProducersOutcome ==
  \A w \in Callers :
    (pc[w] = "done" /\ loc[w].leader \notin {0, w}) =>
      LET l == loc[w].leader
      IN /\ pc[l] = "done" /\ loc[l].leader = l /\ arg[l] = arg[w]
         /\ "granter" \in built =>
              /\ ret[w].err = loc[l].err /\ ret[w].val = loc[l].val
              /\ ret[w] = ret[l]
         /\ "verifier" \in built =>
              /\ getKeyResult(loc[w].err, loc[w].val) = getKeyResult(loc[l].err, loc[l].val)
              /\ loc[w].tok.signer = loc[l].tok.signer => ret[w].err = ret[l].err
              /\ ret[w].err = NoErr => loc[l].err = NoErr /\ loc[l].val = loc[w].tok.signer

\* C3 witness: a waiter and the caller that ran the producer both hold the same
\* error of one failed token request.
C3_Witness ==
  \E w \in Callers : \E l \in Others(w) :
    /\ pc[w] = "done" /\ pc[l] = "done" /\ loc[w].leader = l /\ loc[l].posted
    /\ "granter" \in built /\ ret[w].err # NoErr /\ ret[l].err = ret[w].err

\* C4: the Granter's cache read never returns a token whose stored adjusted
\* expiration is at or before the current time.
C4_ReadNeverReturnsExpiredToken ==
  [][\A c \in Callers :
       (Started(c) /\ loc'[c].hit /\ "granter" \in built)
         => gCache.m[arg'[c]].expiration > now]_vars

\* C5: readPublicKey reports found = false whenever the kid is absent or its
\* stored adjusted expiration is at or before the current time.
C5_KeyReadNeverStale ==
  [][\A c \in Callers :
       (Started(c) /\ loc'[c].hit /\ "verifier" \in built)
         => VPresent(arg'[c]) /\ vCache.m[arg'[c]].expiration > now]_vars

\* C5 witness: a lookup has missed on a key that is still stored, at the very
\* second of its stored expiration.
C5_Witness ==
  \E c \in Callers :
    pc[c] = "vDo" /\ VPresent(arg[c]) /\ vCache.m[arg[c]].expiration = now

\* C6: every entry of the token cache has stored expiration = (time its fetch
\* response was processed) + (expires_in of that response) - ExpirationMargin,
\* and its token is the access_token of that response.
C6_StoredExpiration ==
  \A r \in (IF gCache.isNil THEN {} ELSE DOMAIN gCache.m) :
    /\ gCache.m[r].expiration = gCache.m[r].declared - gMargin
    /\ gCache.m[r].jwt = gCache.m[r].issued

\* C6 witness: an entry written later than time 0 from a response with
\* expires_in > 0, under a margin > 0.
C6_Witness ==
  /\ GPresent(ResourceA) /\ gMargin > 0 /\ now > 0
  /\ gCache.m[ResourceA].declared > now

\* C7 as claimed: every token GetToken returns without error at time t, from the
\* cache, from its own fetch or as a waiter, has t <= processed + expires_in.
C7_NeverReturnsExpiredToken ==
  [][\A c \in Callers :
       (pc[c] # "done" /\ pc'[c] = "done" /\ "granter" \in built /\ ret'[c].err = NoErr)
         => now <= loc'[c].declared]_vars

\* C7 amended: every token GetToken returns from the cache, read at time t, has
\* t <= processed + expires_in, for any margin >= 0.
C7_CachedTokenNotExpired ==
  [][\A c \in Callers :
       (Started(c) /\ loc'[c].hit /\ "granter" \in built)
         => /\ ret'[c].err = NoErr /\ ret'[c].val = gCache.m[arg'[c]].issued
            /\ now <= gCache.m[arg'[c]].declared]_vars

\* C7 witness: with no margin, a token is served from the cache at the very
\* second the provider declared it to expire.
C7_Witness ==
  \E c \in Callers :
    pc[c] = "done" /\ loc[c].hit /\ "granter" \in built /\ gMargin = 0
      /\ loc[c].declared = now /\ now > 0

\* C8: after a fetch processed at t0 with expires_in = E under margin M, a
\* sequential GetToken at t with t - t0 < E - M returns the cached token without
\* a request, and one at t with t - t0 > E - M makes exactly one new request.
C8_Threshold ==
  /\ [][\A c \in Callers :
         (Started(c) /\ "granter" \in built /\ arg'[c] # "" /\ GPresent(arg'[c]))
           => LET e == gCache.m[arg'[c]]
              IN /\ now < e.declared - gMargin =>
                      /\ pc'[c] = "done" /\ ret'[c] = [err |-> NoErr, val |-> e.issued]
                      /\ ~loc'[c].posted
                 /\ now > e.declared - gMargin => pc'[c] = "gDo"]_vars
  /\ [][\A c \in Callers :
         (pc[c] = "gDo" /\ pc'[c] # "gDo" /\ \A d \in Others(c) : pc[d] = "idle")
           => pc'[c] = "gPost" /\ loc'[c].posted /\ ~loc[c].posted]_vars
  /\ [][\A c \in Callers : pc[c] = "gPost" => loc'[c].posted /\ pc'[c] # "gDo"]_vars

\* C8 witness: alone, a caller has missed on a stored entry one second past the
\* threshold of a response with a margin, and has sent its request.
C8_Witness ==
  \E c \in Callers :
    /\ pc[c] = "gPost" /\ \A d \in Others(c) : pc[d] = "idle"
    /\ GPresent(arg[c]) /\ gMargin > 0
    /\ now = gCache.m[arg[c]].declared - gMargin + 1

\* C9: every entry of the key cache has stored expiration = (time of the write)
\* + 86400 - ExpirationMargin; a key written at t0 is served from the cache at
\* every t < t0 + 86400 - margin and fetched again at or after that instant.
C9_KeyLifetime ==
  /\ [](\A k \in (IF vCache.isNil THEN {} ELSE DOMAIN vCache.m) :
          vCache.m[k].expiration = vCache.m[k].written + 86400 - vMargin)
  /\ [][\A c \in Callers :
         (Started(c) /\ "verifier" \in built /\ keyFuncError(loc'[c].tok, vConfig) = NoErr
            /\ VPresent(loc'[c].tok.kid))
           => LET e == vCache.m[loc'[c].tok.kid]
              IN /\ now < e.written + 86400 - vMargin =>
                      pc'[c] = "done" /\ loc'[c].hit /\ ~loc'[c].posted
                 /\ now >= e.written + 86400 - vMargin => pc'[c] = "vDo"]_vars

\* C9 witness: under a margin, a lookup at exactly t0 + 86400 - margin has
\* missed and its JWKS request is in flight.
C9_Witness ==
  \E c \in Callers :
    /\ pc[c] = "vGet" /\ VPresent(arg[c]) /\ vMargin > 0
    /\ now = vCache.m[arg[c]].written + 86400 - vMargin

\* C10: GetToken("") always returns the error "resource cannot be empty", makes
\* no request, does not enter the coalescer and leaves the cache unchanged.
C10_EmptyResource ==
  /\ [][\A c \in Callers :
         (Started(c) /\ "granter" \in built /\ arg'[c] = "")
           => /\ pc'[c] = "done"
              /\ ret'[c] = [err |-> Err("resource cannot be empty"), val |-> ""]
              /\ ~loc'[c].posted
              /\ UNCHANGED <<gCache, gGroup>>]_vars
  /\ [](\A c \in Callers :
          ("granter" \in built /\ arg[c] = "") => pc[c] \in {"idle", "done"})

\* C10 witness: the error has been returned while a token request of another
\* caller is in flight and a token is cached.
C10_Witness ==
  \E c \in Callers : \E d \in Others(c) :
    /\ pc[c] = "done" /\ arg[c] = "" /\ "granter" \in built
    /\ ret[c].err = Err("resource cannot be empty")
    /\ pc[d] = "gPost" /\ GPresent(ResourceA)

\* C11: on a cache miss with ClientID, ClientSecret or TenantURL empty, GetToken
\* fails with the configuration error, sends no request and writes nothing to
\* the cache; every caller coalesced onto the attempt gets the same error.
C11_ConfigurationError ==
  ( /\ "granter" \in built
    /\ gConfig.ClientID = "" \/ gConfig.ClientSecret = "" \/ gConfig.TenantURL = "" )
  => /\ ~GPresent(ResourceA)
     /\ \A c \in Callers :
          /\ ~loc[c].posted /\ pc[c] \notin {"gPost", "gWrite"}
          /\ (pc[c] = "done" /\ arg[c] # "") =>
                /\ ret[c].val = ""
                /\ ret[c].err =
                     IF gConfig.ClientID = "" \/ gConfig.ClientSecret = ""
                       THEN Err("ClientID and ClientSecret cannot be empty")
                       ELSE Err("TenantURL cannot be empty")

\* C11 witness: with the tenant URL missing, the caller that ran the producer and
\* a caller that waited for it have both returned.
C11_Witness ==
  \E w \in Callers : \E l \in Others(w) :
    /\ "granter" \in built /\ gConfig.TenantURL = ""
    /\ pc[w] = "done" /\ pc[l] = "done" /\ loc[w].leader = l /\ loc[l].leader = l
    /\ ret[w].err = Err("TenantURL cannot be empty") /\ ret[l] = ret[w]

\* C12: for every status code outside 200..299 answered by the token endpoint or
\* the JWKS endpoint, the call fails with an error carrying that status code,
\* the body is not decoded and nothing is written to the cache.
C12_StatusError ==
  \A c \in Callers :
    (loc[c].answered /\ loc[c].status \notin 200..299) =>
      /\ pc[c] \notin {"gWrite", "vWrite"}
      /\ loc[c].err # NoErr /\ loc[c].err.code = loc[c].status

\* C13: after ResetCache has returned, the next GetToken (or key lookup) misses
\* the cache and performs a new fetch, whatever the cache held before and
\* whatever other calls were in progress when the reset ran.
C13_NextLookupAfterResetRefetches ==
  \A c \in Callers :
    loc[c].afterReset =>
      /\ ~loc[c].hit
      /\ pc[c] \notin {"gWait", "gDoRet", "vWait", "vDoRet"}
      /\ pc[c] = "done" => loc[c].leader = c /\ loc[c].posted

\* C14: once a producer has returned, its pending entry is gone: a call entering
\* the coalescer afterwards never gets the earlier outcome but runs a new
\* producer; a failed fetch is not remembered, and the next GetToken for the
\* resource sends a new token request.
C14_NothingRememberedAfterProducer ==
  /\ [](\A k \in DOMAIN gGroup :
          pc[gGroup[k]] \in {"gPost", "gWrite", "gFnRet"} /\ arg[gGroup[k]] = k)
  /\ [](\A k \in DOMAIN vGroup :
          pc[vGroup[k]] \in {"vGet", "vWrite", "vFnRet"} /\ arg[vGroup[k]] = k)
  /\ [][\A c \in Callers :
         ( /\ pc[c] \in {"gDo", "vDo"} /\ pc'[c] # pc[c]
           /\ \A d \in Others(c) :
                arg[d] = arg[c] =>
                  pc[d] \notin {"gPost", "gWrite", "gFnRet", "vGet", "vWrite", "vFnRet"} )
         => /\ pc'[c] \in {"gPost", "vGet"}
            /\ loc'[c].leader = c /\ loc'[c].posted /\ ~loc[c].posted]_vars
  /\ [][\A c \in Callers :
         ( /\ pc[c] = "gPost" /\ pc'[c] # "gPost"
           /\ \/ ~loc'[c].answered
              \/ loc'[c].status < 200
              \/ loc'[c].status >= 400 )
         => pc'[c] = "gFnRet" /\ loc'[c].err # NoErr /\ gCache' = gCache]_vars
  /\ [][\A c \in Callers :
         (Started(c) /\ "granter" \in built /\ arg'[c] # "" /\ ~GPresent(arg'[c]))
         => pc'[c] = "gDo"]_vars

\* C14 witness: a GetToken has returned the error of its failed request, nothing
\* is cached, and a later caller for the same resource has its own request in
\* flight.
C14_Witness ==
  \E c \in Callers : \E d \in Others(c) :
    /\ pc[d] = "done" /\ loc[d].posted /\ ret[d].err # NoErr /\ loc[d].leader = d
    /\ pc[c] = "gPost" /\ arg[c] = arg[d] /\ loc[c].leader = c
    /\ ~GPresent(arg[c])

\* C15: no error is retried: one GetToken (or key resolution) causes at most one
\* outbound request, and when that request fails the error is returned to the
\* invoking caller and to every caller coalesced onto it, with no second attempt.
C15_NoRetry ==
  /\ [][\A c \in Callers :
         /\ (pc'[c] \in {"gPost", "vGet"} /\ pc[c] # pc'[c])
              => pc[c] \in {"gDo", "vDo"} /\ ~loc[c].posted
         /\ (pc[c] \in {"gPost", "vGet"} /\ pc'[c] # pc[c])
              => pc'[c] \in {"gWrite", "gFnRet", "vWrite", "vFnRet"}
         /\ (pc[c] \in {"gFnRet", "vFnRet", "gWait", "vWait", "gDoRet", "vDoRet"}
               /\ pc'[c] # pc[c])
              => pc'[c] \in {"gDoRet", "vDoRet", "done"}
         /\ (loc[c].posted /\ pc'[c] # "idle") => loc'[c].posted]_vars
  /\ [](\A c \in Callers :
          /\ ( /\ pc[c] \in {"gFnRet", "vFnRet", "done"} /\ loc[c].posted
               /\ \/ ~loc[c].answered
                  \/ loc[c].status < 200
                  \/ loc[c].status >= 400 )
             => loc[c].err # NoErr
          /\ (pc[c] = "done" /\ loc[c].leader # 0 /\ loc[c].err # NoErr)
             => /\ ret[c].val = "" /\ ret[c].err # NoErr
                /\ ret[c].err.code = loc[c].err.code
                /\ "granter" \in built => ret[c].err = loc[c].err)

\* C15 witness: a token request answered with status 400 has failed the caller
\* that sent it and a caller that waited for it, and only one of them has sent
\* a request.
C15_Witness ==
  \E w \in Callers : \E l \in Others(w) :
    /\ "granter" \in built /\ pc[w] = "done" /\ pc[l] = "done"
    /\ loc[w].leader = l /\ loc[l].leader = l
    /\ loc[l].posted /\ ~loc[w].posted /\ loc[l].answered /\ loc[l].status = 400
    /\ ret[l].err.code = 400 /\ ret[w].err = ret[l].err

\* C16: fetches for different resources on one Granter are not serialized:
\* token requests for two distinct resources can be in flight at the same time,
\* and a caller for R2 never waits for an in-flight fetch for R1 # R2.
C16_ResourcesFetchInParallel ==
  /\ [](\A w \in Callers :
          pc[w] = "gWait" =>
            /\ arg[loc[w].leader] = arg[w]
            /\ pc[loc[w].leader] \in {"gPost", "gWrite", "gFnRet"})
  /\ [][\A c \in Callers :
         ( /\ pc[c] = "gDo" /\ pc'[c] # "gDo"
           /\ \A d \in Others(c) :
                pc[d] \in {"gPost", "gWrite", "gFnRet"} => arg[d] # arg[c] )
         => pc'[c] = "gPost" /\ loc'[c].posted]_vars

\* C16 witness: the token requests for two resources are in flight together.
C16_Witness ==
  \E c \in Callers : \E d \in Others(c) :
    /\ pc[c] = "gPost" /\ pc[d] = "gPost"
    /\ arg[c] = ResourceA /\ arg[d] = ResourceB
    /\ DOMAIN gGroup = {ResourceA, ResourceB}

\* C17: writes to the cache are serialized by the exclusive lock: the entry of a
\* key is the (value, expiration) pair of the most recently completed write for
\* that key since the last reset, never a mix of two writes, and a read never
\* observes a partially written entry.
C17_WritesSerialized ==
  /\ [](gMutex = 0 =>
          \A r \in (IF gCache.isNil THEN {} ELSE DOMAIN gCache.m) :
            /\ gCache.m[r].jwt = gCache.m[r].issued
            /\ gCache.m[r].expiration = gCache.m[r].declared - gMargin)
  /\ [](vMutex = 0 =>
          \A k \in (IF vCache.isNil THEN {} ELSE DOMAIN vCache.m) :
            /\ vCache.m[k].key = vCache.m[k].parsed
            /\ vCache.m[k].expiration = vCache.m[k].written + 86400 - vMargin)
  /\ [][\A c \in Callers :
         /\ (pc[c] = "gRead" /\ loc'[c].hit)
              => /\ gCache.m[arg[c]].jwt = gCache.m[arg[c]].issued
                 /\ gCache.m[arg[c]].expiration = gCache.m[arg[c]].declared - gMargin
                 /\ ret'[c].val = gCache.m[arg[c]].issued
         /\ (pc[c] = "vRead" /\ loc'[c].hit)
              => /\ vCache.m[arg[c]].key = vCache.m[arg[c]].parsed
                 /\ vCache.m[arg[c]].expiration = vCache.m[arg[c]].written + 86400 - vMargin
                 /\ loc'[c].val = vCache.m[arg[c]].parsed]_vars
  /\ [][/\ (gMutex # 0 /\ gCache' # gCache) => pc'[gMutex] # pc[gMutex]
        /\ (vMutex # 0 /\ vCache' # vCache) => pc'[vMutex] # pc[vMutex]]_vars

\* C17 witness: a writer holds the lock with the token of its entry stored and
\* the expiration not yet, while a reader of the same resource waits.
C17_Witness ==
  \E c \in Callers : \E d \in Others(c) :
    /\ pc[d] = "gJwtStored" /\ gMutex = d
    /\ pc[c] = "gRead" /\ arg[c] = arg[d]
    /\ GPresent(arg[d])
    /\ gCache.m[arg[d]].jwt # gCache.m[arg[d]].issued
    /\ gCache.m[arg[d]].expiration >= now

\* C18: provided every outbound HTTP call eventually returns and scheduling is
\* fair, every GetToken, VerifyToken and ResetCache invocation eventually
\* returns, the callers waiting on a coalesced fetch and the callers waiting
\* for the cache lock included.
C18_EveryCallReturns ==
  \A c \in TimedCallers : (pc[c] \notin {"idle", "done"}) ~> (pc[c] = "done")

\* C18 witness: a caller waits on the coalesced fetch of a producer that holds
\* the cache lock, its entry stored.
C18_Witness ==
  \E w \in Callers : \E l \in Others(w) :
    /\ pc[w] = "gWait" /\ loc[w].leader = l
    /\ pc[l] = "gStored" /\ gMutex = l

C20_MissingAudience ==
  /\ [](\A c \in Callers :
          (/\ pc[c] # "idle"
           /\ loc[c].tok # NoToken
           /\ \A i \in 1..Len(loc[c].tok.aud) : loc[c].tok.aud[i] # vConfig.Resource)
          => /\ pc[c] = "done"
             /\ ret[c] = [err |-> Err("bad token: missing audience"), val |-> ""]
             /\ ~loc[c].hit /\ ~loc[c].posted /\ loc[c].leader = 0)
  /\ [][\A c \in Callers :
          (/\ pc[c] = "idle" /\ pc'[c] # "idle"
           /\ \A i \in 1..Len(loc'[c].tok.aud) : loc'[c].tok.aud[i] # vConfig.Resource)
          => UNCHANGED <<vCache, vGroup, vMutex>>]_vars

\* C20 witness: a token addressed to another service and signed by the wrong
\* key has been refused for its audience while its kid's key is in the cache
\* and the other goroutine has a JWKS request in flight.
C20_Witness ==
  \E c, d \in Callers :
    /\ pc[c] = "done" /\ loc[c].tok = ForgedWrongAudToken
    /\ ret[c].err = Err("bad token: missing audience")
    /\ VPresent("k1")
    /\ pc[d] = "vGet"

\* C21: for every token that passes the audience check but whose issuer
\* differs from the Verifier's tenant issuer, VerifyToken fails with the
\* issuer-mismatch error before any key-cache lookup: no cache read, no
\* coalescer entry and no JWKS request occur during that call, and the key
\* cache is unchanged.
C21_IssuerMismatch ==
  /\ [](\A c \in Callers :
          (/\ pc[c] # "idle"
           /\ loc[c].tok # NoToken
           /\ \E i \in 1..Len(loc[c].tok.aud) : loc[c].tok.aud[i] = vConfig.Resource
           /\ loc[c].tok.iss # Issuer(vConfig.TenantURL))
          => /\ pc[c] = "done"
             /\ ret[c] = [err |-> Err("bad token: issuer"), val |-> ""]
             /\ ~loc[c].hit /\ ~loc[c].posted /\ loc[c].leader = 0)
  /\ [][\A c \in Callers :
          (/\ pc[c] = "idle" /\ pc'[c] # "idle"
           /\ \E i \in 1..Len(loc'[c].tok.aud) : loc'[c].tok.aud[i] = vConfig.Resource
           /\ loc'[c].tok.iss # Issuer(vConfig.TenantURL))
          => UNCHANGED <<vCache, vGroup, vMutex>>]_vars

\* C21 witness: a token of another tenant, addressed to this service and
\* carrying a cached kid, has been refused for its issuer while the other
\* goroutine has a JWKS request in flight.
C21_Witness ==
  \E c, d \in Callers :
    /\ pc[c] = "done" /\ loc[c].tok = WrongIssToken
    /\ ret[c].err = Err("bad token: issuer")
    /\ VPresent("k1")
    /\ pc[d] = "vGet"

\* no entry of the key set has the kid
NoEntry(keys, kid) == \A i \in 1..Len(keys) : keys[i].kid # kid
\* the first entry of the key set with the kid has no certificates
FirstIsEmpty(keys, kid) ==
  \E i \in 1..Len(keys) :
    /\ keys[i].kid = kid /\ keys[i].x5c = <<>>
    /\ \A j \in 1..(i - 1) : keys[j].kid # kid
\* what VerifyToken returns when getKey failed with message m
KeyError(m) == [err |-> Err("unable to get public key: " \o m), val |-> ""]

\* C22: key resolution for kid K against a successfully decoded JWKS response
\* fails with an error naming K when no entry has kid = K, and with a
\* missing-certificate-chain error when the first entry with kid = K has an
\* empty x5c list; in both cases nothing is written to the key cache and a
\* later lookup for K fetches again.
C22_KeyNotResolved ==
  /\ [][\A c \in Callers : \A resp \in KeySetResponses :
          JwksResponse(c, resp) =>
            /\ NoEntry(resp.keys, arg[c]) =>
                 /\ loc'[c].err = Err("no key for kid: " \o arg[c])
                 /\ pc'[c] = "vFnRet" /\ vCache' = vCache
            /\ FirstIsEmpty(resp.keys, arg[c]) =>
                 /\ loc'[c].err = Err("missing certificate chain")
                 /\ pc'[c] = "vFnRet" /\ vCache' = vCache]_vars
  /\ [][\A c \in Callers :
          (vDoReturn(c) /\ loc[c].err # NoErr)
          => /\ arg[c] \notin DOMAIN vGroup'
             /\ vCache' = vCache
             /\ pc'[c] = "done" /\ ret'[c] = KeyError(loc[c].err.msg)]_vars
  /\ [][\A c \in Callers :
          (Started(c) /\ keyFuncError(loc'[c].tok, vConfig) = NoErr /\ ~VPresent(arg'[c]))
          => pc'[c] = "vDo"]_vars
  /\ [][\A c \in Callers :
          (/\ pc[c] = "vDo" /\ pc'[c] # "vDo"
           /\ \A d \in Others(c) :
                arg[d] = arg[c] => pc[d] \notin {"vGet", "vWrite", "vFnRet"})
          => pc'[c] = "vGet" /\ loc'[c].posted]_vars

\* C22 witness: one resolution of k1 has failed because the key set had no
\* entry for k1, another because the first entry for k1 had no certificates,
\* nothing is cached for k1, and a third lookup for k1 has its own request in
\* flight.
C22_Witness ==
  \E c, d, e \in Callers :
    /\ pc[c] = "done" /\ arg[c] = "k1"
    /\ ret[c].err = Err("unable to get public key: no key for kid: k1")
    /\ pc[d] = "done" /\ arg[d] = "k1"
    /\ ret[d].err = Err("unable to get public key: missing certificate chain")
    /\ pc[e] = "vGet" /\ arg[e] = "k1" /\ loc[e].leader = e
    /\ ~VPresent("k1")

\* every string of the list is valid UTF-8
ValidStrings(l) ==
  \A i \in 1..Len(l.list) : \A j \in 1..Len(l.list[i]) : l.list[i][j] # InvalidByte

\* C23: for AudienceList, encoding a list of exactly one element yields a bare
\* JSON string; decoding a bare JSON string yields the one-element list of
\* that string; for every list of two or more elements encoding yields a JSON
\* array and decode(encode(list)) = list; and for every one-element list
\* decode(encode(list)) = list.
C23_AudienceListRoundTrip ==
  /\ codec \in {"encoded", "roundtrip"} /\ Len(al.list) = 1 => data.kind = "string"
  /\ codec = "decoded" /\ data.kind = "string" => decoded = List(<<data.s>>)
  /\ codec \in {"encoded", "roundtrip"} /\ Len(al.list) >= 2 => data.kind = "array"
  /\ codec = "roundtrip" /\ Len(al.list) >= 1 => decoded = al

\* C23, amended: the same, the round trip for lists of one or more elements
\* being the identity on lists whose strings are valid UTF-8; the encoding of
\* such a list is the bare string, or the array of the strings, unchanged.
C23_ValidAudienceListRoundTrip ==
  /\ codec \in {"encoded", "roundtrip"} /\ Len(al.list) = 1 => data.kind = "string"
  /\ codec = "decoded" /\ data.kind = "string" => decoded = List(<<data.s>>)
  /\ codec \in {"encoded", "roundtrip"} /\ Len(al.list) >= 2 => data.kind = "array"
  /\ codec \in {"encoded", "roundtrip"} /\ Len(al.list) = 1 /\ ValidStrings(al)
       => data = JsonString(al.list[1])
  /\ codec \in {"encoded", "roundtrip"} /\ Len(al.list) >= 2 /\ ValidStrings(al)
       => data = JsonArray(al.list)
  /\ codec = "roundtrip" /\ Len(al.list) >= 1 /\ ValidStrings(al) => decoded = al

\* C23 witness: a list of one string, which holds U+FFFD itself, has been
\* encoded as a bare string and decoded to the same list.
C23_Witness ==
  /\ codec = "roundtrip"
  /\ al = List(<< <<"b", Replacement>> >>)
  /\ data = JsonString(<<"b", Replacement>>)
  /\ decoded = al

\* C24: for both adapters (the request builder from NewRequestFunc and the
\* transport from NewRoundTripper): whenever GetToken(resource) succeeds with
\* token T, the produced or forwarded request carries the header
\* Authorization: "Bearer T" before it is returned or handed to the underlying
\* transport; whenever GetToken fails, the error is returned, no request is
\* returned, and the underlying transport is never invoked.
C24_AdaptersAttachToken ==
  \A c \in Callers :
    (adapter[c].stage = "returned" /\ pc[c] = "done") =>
      LET out == adapter[c].out
          Carries(v) == \E i \in 1..Len(out.auth) : out.auth[i] = v
      IN /\ ret[c].err = NoErr /\ out.made => Carries("Bearer " \o ret[c].val)
         /\ ret[c].err = NoErr /\ adapter[c].kind = "transport"
              => out.sent /\ out.made /\ out.auth[Len(out.auth)] = "Bearer " \o ret[c].val
         /\ ret[c].err = NoErr /\ adapter[c].kind = "request" /\ out.made
              => out.auth = <<"Bearer " \o ret[c].val>> /\ out.err = NoErr /\ ~out.sent
         /\ ret[c].err # NoErr => out.err = ret[c].err /\ ~out.made /\ ~out.sent
         /\ ret[c].err # NoErr /\ adapter[c].kind = "transport"
              => out.auth = adapter[c].request

\* C24 witness: the request builder has returned a request carrying the token
\* of its GetToken, while the RoundTripper of the other goroutine, whose
\* GetToken failed, has returned the error without invoking the transport.
C24_Witness ==
  \E c, d \in Callers :
    /\ adapter[c].stage = "returned" /\ pc[c] = "done" /\ adapter[c].kind = "request"
    /\ ret[c].err = NoErr /\ ret[c].val = "tok1"
    /\ adapter[c].out.auth = <<"Bearer tok1">>
    /\ adapter[d].stage = "returned" /\ pc[d] = "done" /\ adapter[d].kind = "transport"
    /\ ret[d].err # NoErr /\ ~adapter[d].out.sent

\* C25: in the scope-checking middleware (WithScope), the next handler is
\* invoked if and only if VerifyToken succeeds on the bearer token and the
\* required scope is one of the space-separated entries of Claims.Scope; a
\* verification failure yields 401 and a verified token without the scope
\* yields 403, and in both cases the next handler is never invoked.
C25_WithScope ==
  \A c \in Callers :
    (handler[c].stage = "returned" /\ pc[c] = "done") =>
      LET h == handler[c]
          verified == ret[c].err = NoErr
          scoped == IsEntry(ClaimsScope(ret[c].val), h.required)
      IN /\ h.next <=> (verified /\ scoped)
         /\ verified => h.token = <<ret[c].val>> /\ loc[c].tok.raw = ret[c].val
         /\ ~verified => h.status = 401 /\ ~h.next
         /\ verified /\ ~scoped => h.status = 403 /\ ~h.next

\* C25 witness: one request with a verified token holding the required scope
\* has reached the next handler, and another with a verified token without it
\* has been answered 403.
C25_Witness ==
  \E c, d \in Callers :
    /\ handler[c].stage = "returned" /\ pc[c] = "done"
    /\ ret[c].val = "wide" /\ handler[c].required = <<"r">> /\ handler[c].next
    /\ handler[d].stage = "returned" /\ pc[d] = "done"
    /\ ret[d].val = "good" /\ handler[d].required = <<"x">>
    /\ handler[d].status = 403 /\ ~handler[d].next

\* C26: for every status code and message, sendError(w, status, msg) produces
\* a response whose status code equals status and whose body decodes as JSON
\* to an apiError with Message = msg, with the Content-Type header set before
\* the status is written.
C26_SendError ==
  /\ answer.stage \in {"status", "returned"} =>
       /\ answer.code = answer.status
       /\ \E i \in 1..Len(answer.sentHeader) : answer.sentHeader[i] = "application/json"
  /\ answer.stage = "returned" =>
       /\ DecodeApiError(answer.body).ok
       /\ DecodeApiError(answer.body).Message = answer.msg

\* the checks of a token, each on its own
AudienceOk(tok) == \E i \in 1..Len(tok.aud) : tok.aud[i] = vConfig.Resource
IssuerOk(tok) == tok.iss # <<>> /\ tok.iss = Issuer(vConfig.TenantURL)
KidOk(tok) == tok.hasKid

\* C27: within one VerifyToken call the checks run in the fixed order
\* audience, issuer, kid header, key resolution, signature: signature
\* verification is attempted only after all four earlier steps succeeded, key
\* resolution only after audience, issuer and kid succeeded, and a token that
\* fails several checks is rejected with the error of the earliest failing
\* check in that order.
C27_OrderOfChecks ==
  \A c \in Callers :
    LET tok == loc[c].tok
        failed(m) == [err |-> Err(m), val |-> ""]
    IN /\ (pc[c] \in {"vDo", "vWait", "vGet", "vWrite", "vFnRet", "vDoRet"} \/ loc[c].hit)
            => AudienceOk(tok) /\ IssuerOk(tok) /\ KidOk(tok)
       /\ (pc[c] = "done" /\ tok # NoToken) =>
            IF ~AudienceOk(tok) THEN ret[c] = failed("bad token: missing audience")
            ELSE IF ~IssuerOk(tok) THEN ret[c] = failed("bad token: issuer")
            ELSE IF ~KidOk(tok) THEN ret[c] = failed("unable to get kid header from token")
            ELSE IF loc[c].err # NoErr
              THEN ret[c] = failed("unable to get public key: " \o loc[c].err.msg)
            ELSE /\ loc[c].val \in {"pkA", "pkB"}
                 /\ IF tok.signer # loc[c].val
                      THEN ret[c] = failed("crypto/rsa: verification error")
                      ELSE ret[c] = [err |-> NoErr, val |-> tok.raw]

\* C27 witness: a forged token whose kid has no key in the key set has been
\* refused for the key, not the signature, and a token of the wrong audience
\* and the wrong issuer for its audience.
C27_Witness ==
  \E c, d \in Callers :
    /\ pc[c] = "done" /\ loc[c].tok = ForgedOtherKidToken
    /\ ret[c].err = Err("unable to get public key: no key for kid: k2")
    /\ pc[d] = "done" /\ loc[d].tok = WrongAudWrongIssToken
    /\ ret[d].err = Err("bad token: missing audience")

\* u without its trailing slashes
Stripped(u) ==
  CHOOSE p \in { SubSeq(u, 1, n) : n \in 0..Len(u) } :
    /\ p = <<>> \/ p[Len(p)] # "/"
    /\ \A k \in (Len(p) + 1)..Len(u) : u[k] = "/"
\* the number of slashes s ends with
RECURSIVE TrailingSlashes(_)
TrailingSlashes(s) ==
  IF s # <<>> /\ s[Len(s)] = "/" THEN 1 + TrailingSlashes(SubSeq(s, 1, Len(s) - 1)) ELSE 0
\* the issuer check of a Verifier with this tenant URL lets the issuer pass
Accepts(u, iss) ==
  keyFuncError(Token("x", <<ResourceB>>, iss, TRUE, "k1", "pkA"),
               [Resource |-> ResourceB, TenantURL |-> u]) = NoErr

\* C28: the issuer check accepts a token only if its issuer claim is non-empty
\* and equals the configured TenantURL with all trailing slashes removed and
\* exactly one slash appended; hence tenant URLs that differ only in the number
\* of trailing slashes accept exactly the same issuers, and an issuer with
\* zero or with two trailing slashes is rejected.
C28_IssuerCheck ==
  /\ \A c \in Callers :
       LET tok == loc[c].tok
           expected == Stripped(vConfig.TenantURL) \o <<"/">>
           rejected == pc[c] = "done" /\ ret[c] = [err |-> Err("bad token: issuer"), val |-> ""]
       IN (pc[c] # "idle" /\ tok # NoToken) =>
            /\ ~rejected => tok.iss # <<>> /\ tok.iss = expected
            /\ TrailingSlashes(tok.iss) # 1 => rejected
            /\ (tok.iss # <<>> /\ tok.iss = expected) => ~rejected
  /\ \A u1, u2 \in TenantURLs :
       Stripped(u1) = Stripped(u2) =>
         \A tok \in TenantTokens : Accepts(u1, tok.iss) <=> Accepts(u2, tok.iss)

\* C28 witness: a Verifier whose TenantURL is written with two trailing
\* slashes has accepted the issuer with one and has rejected the issuer with
\* two.
C28_Witness ==
  \E c, d \in Callers :
    /\ vConfig.TenantURL = <<"t", "/", "/">>
    /\ pc[c] = "done" /\ loc[c].tok = GoodToken /\ ret[c] = [err |-> NoErr, val |-> "good"]
    /\ pc[d] = "done" /\ loc[d].tok = TwoSlashIssToken
    /\ ret[d].err = Err("bad token: issuer")

\* the entries of a cache
Entries(cache) == IF cache.isNil THEN <<>> ELSE cache.m
\* new is old with the entry of k set, every other entry as it was
SetsOnly(old, new, k) ==
  /\ DOMAIN Entries(new) = DOMAIN Entries(old) \cup {k}
  /\ \A j \in DOMAIN Entries(old) \ {k} : Entries(new)[j] = Entries(old)[j]

\* C29: the cache map of a Granter or Verifier changes only through two
\* actions: a successful fetch, which sets exactly the entry of the fetched key
\* and leaves every other entry unchanged, and ResetCache, which removes all
\* entries; cache reads (hit, miss or expired), failed fetches, rejected
\* tokens and the passage of time leave the map unchanged, so an expired entry
\* stays stored until it is overwritten or reset.
C29_CacheFrame ==
  /\ [][gCache' # gCache =>
          \/ \E c \in Callers :
               /\ pc[c] = "gWrite" /\ pc'[c] = "gFnRet"
               /\ loc[c].err = NoErr /\ loc[c].answered
               /\ SetsOnly(gCache, gCache', arg[c])
               /\ gCache'.m[arg[c]].jwt = loc[c].val
          \/ /\ gCache' = NilCache
             /\ \E c \in Callers : pc[c] = "idle" /\ pc'[c] = "idle"]_vars
  /\ [][vCache' # vCache =>
          \/ \E c \in Callers :
               /\ pc[c] = "vWrite" /\ pc'[c] = "vFnRet"
               /\ loc[c].err = NoErr /\ loc[c].answered
               /\ SetsOnly(vCache, vCache', arg[c])
               /\ vCache'.m[arg[c]].key = loc[c].val
          \/ /\ vCache' = NilCache
             /\ \E c \in Callers : pc[c] = "idle" /\ pc'[c] = "idle"]_vars
  /\ [][(now' # now \/ \E c \in Callers : Started(c))
          => gCache' = gCache /\ vCache' = vCache]_vars
  /\ [][\A c \in Callers :
          (pc[c] \in {"gPost", "vGet"} /\ pc'[c] \in {"gFnRet", "vFnRet"})
          => loc'[c].err # NoErr /\ gCache' = gCache /\ vCache' = vCache]_vars

\* C29 witness: the entry of one resource has expired and a GetToken for it has
\* missed and is fetching, the expired entry and the entry of the other
\* resource still being stored.
C29_Witness ==
  \E c \in Callers :
    /\ GPresent(ResourceA) /\ GPresent(ResourceB)
    /\ gCache.m[ResourceA].expiration < now
    /\ pc[c] = "gPost" /\ arg[c] = ResourceA /\ loc[c].leader = c

\* C30: tokens never cross resources: every token that GetToken(R) returns
\* without error on a Granter is the access_token of a provider response to a
\* token request whose audience was R on that same Granter; a token obtained
\* for a resource R' # R is never returned for R, under any interleaving of
\* concurrent calls, fetch completions and resets.
C30_TokensNeverCrossResources ==
  /\ \A c \in Callers :
       (pc[c] = "done" /\ ret[c].err = NoErr) => ret[c].val = TokenFor(arg[c])
  /\ \A c \in Callers :
       (pc[c] \in {"gWrite", "gFnRet", "gDoRet"} /\ loc[c].err = NoErr)
         => loc[c].val = TokenFor(arg[c])
  /\ \A r \in DOMAIN Entries(gCache) : gCache.m[r].jwt = TokenFor(r)

\* C30 witness: GetToken has returned the token of the first resource from the
\* cache to one goroutine while the other, which asked for the second
\* resource, has returned that resource's token from its own fetch.
C30_Witness ==
  \E c, d \in Callers :
    /\ pc[c] = "done" /\ arg[c] = ResourceA /\ loc[c].hit /\ ret[c].val = "tokA"
    /\ pc[d] = "done" /\ arg[d] = ResourceB /\ loc[d].posted /\ ret[d].val = "tokB"
    /\ GPresent(ResourceA) /\ GPresent(ResourceB)

\* the status the handler passed to WriteHeader on the wrapping writer, 200
\* when it never called WriteHeader
PassedStatus == IF wrapped.passed = <<>> THEN StatusOK ELSE wrapped.passed[1]

\* C31: the status that the WithLog middleware logs, and the status label
\* that the WithPrometheus middleware records, for a request equals the
\* status code the wrapped handler passed to WriteHeader on the wrapping
\* response writer, and is 200 only when the handler wrote 200 or never
\* called WriteHeader.
C31_RecordedStatus ==
  wrapped.stage = "recorded" =>
    /\ wrapped.mw = "WithLog" => wrapped.logged = PassedStatus
    /\ wrapped.mw = "WithPrometheus" => wrapped.label = Sprintf(PassedStatus)

\* whether handler h was entered before the i-th handler the request entered
EnteredBefore(h, i) == \E j \in 1..(i - 1) : routed.entered[j] = h

\* C32: every request served by the handler that newRouter returns passes
\* through the CORS middleware and the NewRelic middleware before it reaches
\* a route handler (/health or /v1/proxy).
C32_ThroughMiddleware ==
  \A i \in 1..Len(routed.entered) :
    routed.entered[i] \in {"healthHandler", "proxyHandler"}
      => EnteredBefore("cors", i) /\ EnteredBefore("newrelic", i)

====
